---- MODULE Spec2Model ----
(***************************************************************************)
(* Kettlebell snatch repetition detector (SnatchRepDetector.ts, held in    *)
(* src/unnamed/part_002): phase state machine, repetition / set            *)
(* aggregation and fatigue analysis.                                       *)
(*                                                                         *)
(* Units.  Velocities are integers in 0.01 m/s, height ratios in percent,  *)
(* times in milliseconds, joint angles in degrees, image coordinates in    *)
(* percent of the frame height.  Ratios the code computes in floating      *)
(* point (percent drops, means) are compared by cross-multiplication, so   *)
(* every comparison is exact.                                              *)
(*                                                                         *)
(* The class declares the member name onPhaseChange twice: the private     *)
(* three-argument handler (lines 366-401) and the public callback          *)
(* registration (lines 684-690).  A JavaScript class keeps the later       *)
(* definition, so the call in processFrame (line 261) reaches the          *)
(* registration.  Spec is the detector as built.  SpecHandler is the same  *)
(* detector with that one call bound to the three-argument handler; it is  *)
(* the vehicle for statements about the repetition, set and fatigue code   *)
(* that the built program never reaches.  SpecSession and SpecIdle keep    *)
(* the handler binding: SpecSession runs whole sets of repetitions with    *)
(* hand switches, SpecIdle one repetition followed by still frames, with   *)
(* the fairness that frames keep being processed, SpecControl sessions     *)
(* with stop(), start(), pause() and resume() between the frames, and      *)
(* SpecHold repetitions whose lockout is held for longer than the history  *)
(* buffers reach back, SpecReturn repetitions followed by moving and still *)
(* frames in Return, SpecPull repetitions whose pull outlasts the history  *)
(* buffers, SpecChannel repetitions delivered to callbacks that subscribe  *)
(* and unsubscribe.  SpecFilter is a KalmanFilter1D on its own, in         *)
(* fixed-point arithmetic (KalmanFilter.ts), SpecSteady the same filter    *)
(* fed one                                                                 *)
(* measurement at a constant period; in the detector's specifications the  *)
(* filter's estimate is part of the frame, except in SpecVelocity, which   *)
(* is the detector as built with its filter in full.  SpecPose is the page *)
(* (SnatchDetector.svelte) with the dominant-hand part of                  *)
(* PoseDetectionService and the detector as built.                         *)
(***************************************************************************)
EXTENDS Integers, Sequences, FiniteSets, TLC

\* ------------------------------------------------------------------ bounds
\* Frames processed in one run of Spec and SpecHandler.
MaxFrames == 8
\* Departures from the plain run (start(), then frames 100 ms apart that each
\* advance the phase machine along its cycle) in one run of Spec and
\* SpecHandler: a frame that does not advance, a rest, a further API call.
MaxExtra == 1
\* Frames processed in one run of SpecSession.
MaxSessionFrames == 27
\* API calls in one run of SpecSession, the opening start() included.
MaxSessionCalls == 3
\* Frames processed in one run of SpecIdle: a repetition, and still frames
\* for longer than maxRepGap.
MaxIdleFrames == 16
\* Length of the three history buffers (stands for the code's 300 samples).
maxHistoryLength == 8
\* Frames sent and API calls made (the opening start() included) in one run
\* of SpecControl, and the frames of it sent to a detector that is not
\* active.
MaxControlFrames == 13
MaxControlCalls == 4
MaxInactiveFrames == 1
\* Frames processed in one run of SpecHold: a repetition whose lockout is
\* held until the history holds nothing older.
MaxHoldFrames == 13
\* Updates and resets of the filter in one run of SpecFilter.
MaxUpdates == 3
MaxResets == 1
\* Updates of the filter in one run of SpecSteady and of SpecVelocity.
MaxSteadyUpdates == 70
\* Frames processed in one run of SpecReturn: a repetition, and frames in
\* Return.
MaxReturnFrames == 14
\* Frames processed in one run of SpecPull: a repetition whose pull lasts
\* longer than the history buffers reach back.
MaxPullFrames == 13
\* Pose results delivered and handlers run in one run of SpecPose.
\* Frames, and calls of onRep and of unsubscribe closures, in one run of
\* SpecChannel.
MaxChannelFrames == 13
MaxChannelCalls == 3
MaxPoseFrames == 13
MaxPoseCalls == 3

\* ------------------------------------------------- DEFAULT_CONFIG (x100)
backswingMin == -15
pullMin == 20
lockoutMax == 5
backswingHeightRatio == 70
lockoutHeightRatio == 30
velocityDropWarning == 15
velocityDropCritical == 25
powerDropWarning == 20
powerDropCritical == 35
maxRepGap == 5000
kettlebellWeight == 16
\* Literals of detectPhase.
dropVelocity == -10
restVelocity == 5
restDuration == 500
overheadAngle == 150
\* Fault seeded for the baseline: two samples instead of three.
baselineSizeShort == 3 - 1
\* Baseline size in finalizeRep / checkFatigue.
baselineSize == 3

IDLE == "idle"
BACKSWING == "backswing"
HIKE == "hike"
PULL == "pull"
PUNCH == "punch"
LOCKOUT == "lockout"
DROP == "drop"
RETURN == "return"

SnatchPhase == {IDLE, BACKSWING, HIKE, PULL, PUNCH, LOCKOUT, DROP, RETURN}

VARIABLES
  \* SnatchRepDetector fields
  config, currentPhase, phaseStartTime, phaseHistory,
  repInProgress, currentRepStartTime,
  velocityHistory, heightHistory, angleHistory,
  currentSetStartTime, currentSetReps, lastRepEndTime,
  sessionStartTime, sets, fatigueAlerts,
  baselineVelocities, baselinePowers,
  velocityFilter, phaseCallbacks, repCallbacks,
  isActive, currentHand, setCounter, repCounter,
  \* the deliveries of the repetition channel: for each RepData emitted, the
  \* callbacks registered at that moment and the callbacks invoked
  repDeliveries,
  \* environment: performance.now(), the events delivered to the callback
  \* loops, the run's counters, the scenario monitor, the frame last sent,
  \* the name of the method last called and the SessionData last returned
  \* by stop()
  now, events, frames, extra, calls, scenario, lastFrame, lastCall, returned,
  \* a KalmanFilter1D on its own, the measurement and timestamp of its last
  \* update, and what it has been through since it was constructed or last
  \* reset
  kalmanFilter, lastUpdate, filterLog,
  \* SnatchDetector.svelte and PoseDetectionService: the pose service, the
  \* settings and session stores, the frame last delivered to the pose
  \* callback, the frames in which each wrist was the faster one since the
  \* service's counts were last cleared, and the position of handleStart
  poseService, settings, sessionState, poseFrame, wristActivity, pc,
  \* the greatest velocity among the frames processed since Pull was entered
  \* (while the machine is in Pull)
  peakSincePull

poseVars == <<poseService, settings, sessionState, poseFrame, wristActivity, pc>>

detectorVars == <<config, currentPhase, phaseStartTime, phaseHistory,
  repInProgress, currentRepStartTime,
  velocityHistory, heightHistory, angleHistory,
  currentSetStartTime, currentSetReps, lastRepEndTime,
  sessionStartTime, sets, fatigueAlerts,
  baselineVelocities, baselinePowers,
  velocityFilter, phaseCallbacks, repCallbacks,
  isActive, currentHand, setCounter, repCounter, events, repDeliveries>>

\* ---------------------------------------------------------------- helpers
Abs(x) == IF x < 0 THEN -x ELSE x

RECURSIVE SeqSum(_)
SeqSum(s) == IF s = <<>> THEN 0 ELSE Head(s) + SeqSum(Tail(s))

RECURSIVE SeqMax(_)
\* Math.max(...s) of a non-empty list.
SeqMax(s) ==
  IF Len(s) = 1 THEN s[1]
  ELSE LET m == SeqMax(Tail(s)) IN IF s[1] > m THEN s[1] ELSE m

Filter(s, Test(_)) == SelectSeq(s, Test)

Map(s, F(_)) == [i \in 1..Len(s) |-> F(s[i])]

\* Math.round(num / den) for den > 0 and num >= 0: half rounds up.
Round(num, den) ==
  (num \div den) + (IF 2 * (num % den) >= den THEN 1 ELSE 0)

\* A quotient num / den of the code's floating point arithmetic, kept as its
\* two terms: den = 0 is the division by zero, which IEEE arithmetic answers
\* with NaN for 0 / 0 and with an infinity of the sign of num otherwise.
Quotient(num, den) == [num |-> num, den |-> den]

NaN == Quotient(0, 0)

IsNaN(q) == q.den = 0 /\ q.num = 0

IsInfinite(q) == q.den = 0 /\ q.num # 0

\* q < k and q > k for a quotient that is not NaN and an integer k.
Below(q, k) ==
  IF q.den > 0 THEN q.num < k * q.den
  ELSE IF q.den < 0 THEN q.num > k * q.den
  ELSE q.num < 0

Above(q, k) ==
  IF q.den > 0 THEN q.num > k * q.den
  ELSE IF q.den < 0 THEN q.num < k * q.den
  ELSE q.num > 0

\* The one element of a set of one element.
The(set) == CHOOSE x \in set : TRUE

\* x + y: NaN is contagious, and infinities of opposite signs give NaN.  (In
\* this and the next two operators the operands are bound by a set of one
\* element, so that each is evaluated once.)
Plus(x, y) ==
  The({IF IsNaN(a) \/ IsNaN(b) THEN NaN
       ELSE IF IsInfinite(a) /\ IsInfinite(b)
       THEN IF (a.num > 0) = (b.num > 0) THEN a ELSE NaN
       ELSE IF IsInfinite(a) THEN a
       ELSE IF IsInfinite(b) THEN b
       ELSE Quotient(a.num * b.den + b.num * a.den, a.den * b.den) :
       a \in {x}, b \in {y}})

\* Math.max(0, x) and Math.min(1, x): NaN if x is NaN.
MathMax0(x) ==
  The({IF IsNaN(q) THEN NaN ELSE IF Below(q, 0) THEN Quotient(0, 1) ELSE q :
       q \in {x}})

MathMin1(x) ==
  The({IF IsNaN(q) THEN NaN ELSE IF Above(q, 1) THEN Quotient(1, 1) ELSE q :
       q \in {x}})

\* ----------------------------------------------------------- configuration
\* DEFAULT_CONFIG merged with the constructor's overrides.
DEFAULT_CONFIG == [
  kettlebellWeight |-> kettlebellWeight,
  velocityThresholds |-> [backswingMin |-> backswingMin, pullMin |-> pullMin,
                          lockoutMax |-> lockoutMax],
  positionThresholds |-> [backswingHeightRatio |-> backswingHeightRatio,
                          lockoutHeightRatio |-> lockoutHeightRatio],
  fatigueThresholds |-> [velocityDropWarning |-> velocityDropWarning,
                         velocityDropCritical |-> velocityDropCritical,
                         powerDropWarning |-> powerDropWarning,
                         powerDropCritical |-> powerDropCritical],
  setDetection |-> [maxRepGap |-> maxRepGap, minRepsForSet |-> 1]]

\* The configurations a detector is constructed with: the defaults, and the
\* defaults with a floor of two repetitions per set.
Configs == {DEFAULT_CONFIG,
            [DEFAULT_CONFIG EXCEPT !.setDetection.minRepsForSet = 2]}

\* ---------------------------------------------------------------- the state
\* The detector object as one record; the actions read it with Detector and
\* write it back with Becomes.
Detector == [
  config |-> config, currentPhase |-> currentPhase,
  phaseStartTime |-> phaseStartTime, phaseHistory |-> phaseHistory,
  repInProgress |-> repInProgress, currentRepStartTime |-> currentRepStartTime,
  velocityHistory |-> velocityHistory, heightHistory |-> heightHistory,
  angleHistory |-> angleHistory,
  currentSetStartTime |-> currentSetStartTime, currentSetReps |-> currentSetReps,
  lastRepEndTime |-> lastRepEndTime, sessionStartTime |-> sessionStartTime,
  sets |-> sets, fatigueAlerts |-> fatigueAlerts,
  baselineVelocities |-> baselineVelocities, baselinePowers |-> baselinePowers,
  velocityFilter |-> velocityFilter, phaseCallbacks |-> phaseCallbacks,
  repCallbacks |-> repCallbacks,
  isActive |-> isActive, currentHand |-> currentHand,
  setCounter |-> setCounter, repCounter |-> repCounter,
  events |-> events, repDeliveries |-> repDeliveries]

Becomes(d) ==
  /\ config' = d.config
  /\ currentPhase' = d.currentPhase
  /\ phaseStartTime' = d.phaseStartTime
  /\ phaseHistory' = d.phaseHistory
  /\ repInProgress' = d.repInProgress
  /\ currentRepStartTime' = d.currentRepStartTime
  /\ velocityHistory' = d.velocityHistory
  /\ heightHistory' = d.heightHistory
  /\ angleHistory' = d.angleHistory
  /\ currentSetStartTime' = d.currentSetStartTime
  /\ currentSetReps' = d.currentSetReps
  /\ lastRepEndTime' = d.lastRepEndTime
  /\ sessionStartTime' = d.sessionStartTime
  /\ sets' = d.sets
  /\ fatigueAlerts' = d.fatigueAlerts
  /\ baselineVelocities' = d.baselineVelocities
  /\ baselinePowers' = d.baselinePowers
  /\ velocityFilter' = d.velocityFilter
  /\ phaseCallbacks' = d.phaseCallbacks
  /\ repCallbacks' = d.repCallbacks
  /\ repDeliveries' = d.repDeliveries
  /\ isActive' = d.isActive
  /\ currentHand' = d.currentHand
  /\ setCounter' = d.setCounter
  /\ repCounter' = d.repCounter
  /\ events' = d.events

\* A callback loop: what a subscriber registered on the channel is handed,
\* and what getCurrentPhase() answers it during the call.
Emit(d, type, data) ==
  [d EXCEPT !.events = Append(@, [type |-> type, data |-> data,
                                  currentPhase |-> d.currentPhase])]

\* A callback of the repetition channel: its name, and the name of the
\* callback whose unsubscribe closure it calls when it is invoked ("none" if
\* it calls none).
RepCallback(name, unsubscribes) == [name |-> name, unsubscribes |-> unsubscribes]

\* The unsubscribe closure of lines 670-673 for the callback of that name:
\* indexOf, and splice if it is found.
Unsubscribed(list, name) ==
  LET found == {i \in 1..Len(list) : list[i].name = name}
  IN IF found = {} THEN list
     ELSE LET idx == CHOOSE i \in found : \A j \in found : i <= j
          IN SubSeq(list, 1, idx - 1) \o SubSeq(list, idx + 1, Len(list))

RECURSIVE forOf(_, _, _)
\* for (const callback of list) callback(data), from the array iterator's
\* index i on: the iterator reads the live array, which a callback's
\* unsubscribe splices while the loop runs.
forOf(list, i, invoked) ==
  IF i > Len(list) THEN [callbacks |-> list, invoked |-> invoked]
  ELSE forOf(IF list[i].unsubscribes = "none" THEN list
             ELSE Unsubscribed(list, list[i].unsubscribes),
             i + 1, Append(invoked, list[i].name))

\* The loop of lines 487-489.
notifyRepCallbacks(d, repData) ==
  LET loop == forOf(d.repCallbacks, 1, <<>>)
  IN [d EXCEPT !.repCallbacks = loop.callbacks,
               !.repDeliveries =
                  Append(@, [data |-> repData.repNumber,
                             registered |-> [i \in 1..Len(d.repCallbacks) |->
                                               d.repCallbacks[i].name],
                             invoked |-> loop.invoked])]

\* onRep, lines 668-669 (the closure it returns is Unsubscribed).
onRep(d, callback) == [d EXCEPT !.repCallbacks = Append(@, callback)]

\* ------------------------------------------------------------ phase machine
\* The tracked hand's shoulder abduction.
shoulderAngle(d, angles) ==
  IF d.currentHand = "left" THEN angles.leftShoulderAbduction
  ELSE angles.rightShoulderAbduction

getPeakVelocityInPhase(d) ==
  LET InPhase(v) == v.time >= d.phaseStartTime
      phaseVelocities == Filter(d.velocityHistory, InPhase)
      Velocity(v) == v.velocity
  IN IF Len(phaseVelocities) > 0 THEN SeqMax(Map(phaseVelocities, Velocity))
     ELSE 0

getPhaseDuration(d, currentTime) == currentTime - d.phaseStartTime

\* Fault seeded for the edge property: a detectPhase that leaves Idle
\* straight for Hike.
detectPhaseSkippingBackswing(d, velocity, heightRatio, angles, timestamp) ==
  IF d.currentPhase = IDLE /\ velocity < d.config.velocityThresholds.backswingMin
  THEN HIKE ELSE d.currentPhase

\* heightRatio is in percent; lockoutHeightRatio * 0.7 and peak * 0.5 are
\* compared after multiplying both sides by 10 and by 2.
detectPhase(d, velocity, heightRatio, angles, timestamp) ==
  LET vt == d.config.velocityThresholds
      pt == d.config.positionThresholds
      p == d.currentPhase
  IN
  IF p = IDLE THEN
    IF velocity < vt.backswingMin /\ heightRatio < pt.backswingHeightRatio
    THEN BACKSWING ELSE p
  ELSE IF p = BACKSWING THEN
    IF velocity > 0 /\ heightRatio < pt.backswingHeightRatio
    THEN HIKE ELSE p
  ELSE IF p = HIKE THEN
    IF velocity > vt.pullMin THEN PULL
    ELSE IF velocity < vt.backswingMin THEN BACKSWING
    ELSE p
  ELSE IF p = PULL THEN
    IF /\ heightRatio * 10 > pt.lockoutHeightRatio * 7
       /\ velocity * 2 < getPeakVelocityInPhase(d)
    THEN PUNCH ELSE p
  ELSE IF p = PUNCH THEN
    IF /\ Abs(velocity) < vt.lockoutMax
       /\ heightRatio > pt.lockoutHeightRatio
       /\ shoulderAngle(d, angles) > overheadAngle
    THEN LOCKOUT ELSE p
  ELSE IF p = LOCKOUT THEN
    IF velocity < dropVelocity THEN DROP ELSE p
  ELSE IF p = DROP THEN
    IF heightRatio * 10 < pt.lockoutHeightRatio * 7 THEN RETURN ELSE p
  ELSE IF p = RETURN THEN
    IF velocity < vt.backswingMin /\ heightRatio < pt.backswingHeightRatio
    THEN BACKSWING
    ELSE IF Abs(velocity) < restVelocity
            /\ getPhaseDuration(d, timestamp) > restDuration
    THEN IDLE
    ELSE p
  ELSE p

\* ------------------------------------------------------------- aggregation
\* Watts, rounded: (m g |h| + m v^2 / 2) / t with h = mean * t / 2.  With the
\* velocities in 0.01 m/s (mean = velocitySum / count) and t in units of
\* 100 ms this is m (981 |sum| t + 10 peak^2 count) / (20000 count t); every
\* timestamp of the model is a multiple of 100 ms.
calculatePower(d, peakVelocity, velocitySum, count, duration) ==
  LET mass == d.config.kettlebellWeight
      t == duration \div 100
  IN Round(mass * (981 * Abs(velocitySum) * t + 10 * peakVelocity * peakVelocity * count),
           20000 * count * t)

\* Fault seeded for the severity rule: a strict comparison.
DropMoreThan(sum, n, value, threshold) ==
  IF sum > 0 THEN (sum - n * value) * 100 > threshold * sum
  ELSE IF sum < 0 THEN (sum - n * value) * 100 < threshold * sum
  ELSE value < 0

\* ((baseline - value) / baseline) * 100 >= threshold, with baseline =
\* sum / n, as IEEE arithmetic decides it: a zero baseline gives +Infinity
\* for a negative value and -Infinity or NaN otherwise.
DropAtLeast(sum, n, value, threshold) ==
  IF sum > 0 THEN (sum - n * value) * 100 >= threshold * sum
  ELSE IF sum < 0 THEN (sum - n * value) * 100 <= threshold * sum
  ELSE value < 0

emitFatigueAlert(d, alert) ==
  Emit([d EXCEPT !.fatigueAlerts = Append(@, alert)], "fatigue", alert)

\* Fault seeded for the alert's set number: the number of the last set
\* finalized.
FatigueAlertOfLastSet(d, rep, type, severity) ==
  [timestamp |-> rep.endTime, setNumber |-> d.setCounter,
   repNumber |-> rep.repNumber, type |-> type, severity |-> severity]

FatigueAlert(d, rep, type, severity) ==
  [timestamp |-> rep.endTime, setNumber |-> d.setCounter + 1,
   repNumber |-> rep.repNumber, type |-> type, severity |-> severity]

checkFatigue(d, rep) ==
  IF Len(d.baselineVelocities) < baselineSize THEN d
  ELSE
    LET velSum == SeqSum(d.baselineVelocities)
        velN == Len(d.baselineVelocities)
        powSum == SeqSum(d.baselinePowers)
        powN == Len(d.baselinePowers)
        ft == d.config.fatigueThresholds
        \* ((baselineVel - rep.peakVelocity) / baselineVel) * 100
        velocityDrop == [velocityDropPercent |->
                           Quotient((velSum - velN * rep.peakVelocity) * 100, velSum)]
        d1 == IF DropAtLeast(velSum, velN, rep.peakVelocity, ft.velocityDropCritical)
              THEN emitFatigueAlert(d, FatigueAlert(d, rep, "velocity_drop", "critical")
                                         @@ velocityDrop)
              ELSE IF DropAtLeast(velSum, velN, rep.peakVelocity, ft.velocityDropWarning)
              THEN emitFatigueAlert(d, FatigueAlert(d, rep, "velocity_drop", "warning")
                                         @@ velocityDrop)
              ELSE d
    IN IF DropAtLeast(powSum, powN, rep.power, ft.powerDropCritical)
       THEN emitFatigueAlert(d1, FatigueAlert(d1, rep, "power_drop", "critical"))
       ELSE IF DropAtLeast(powSum, powN, rep.power, ft.powerDropWarning)
       THEN emitFatigueAlert(d1, FatigueAlert(d1, rep, "power_drop", "warning"))
       ELSE d1

finalizeRep(d, timestamp) ==
  LET repStartTime == d.currentRepStartTime
      repEndTime == timestamp
      duration == repEndTime - repStartTime
      InRep(x) == x.time >= repStartTime /\ x.time <= repEndTime
      repVelocities == Filter(d.velocityHistory, InRep)
      repHeights == Filter(d.heightHistory, InRep)
      Velocity(v) == v.velocity
      Height(h) == h.height
      peakVelocity == SeqMax(Map(repVelocities, Velocity))
      velocitySum == SeqSum(Map(repVelocities, Velocity))
      peakHeight == SeqMax(Map(repHeights, Height))
      IsLockout(p) == p.phase = LOCKOUT
      lockouts == Filter(d.phaseHistory, IsLockout)
      lockoutTime == IF Len(lockouts) > 0
                     THEN lockouts[1].endTime - lockouts[1].startTime ELSE 0
      power == calculatePower(d, peakVelocity, velocitySum, Len(repVelocities), duration)
      repData == [repNumber |-> d.repCounter + 1,
                  startTime |-> repStartTime, endTime |-> repEndTime,
                  duration |-> duration,
                  peakVelocity |-> peakVelocity,
                  meanVelocity |-> [num |-> velocitySum, den |-> Len(repVelocities)],
                  peakHeight |-> peakHeight,
                  lockoutTime |-> lockoutTime,
                  phases |-> d.phaseHistory,
                  power |-> power,
                  hand |-> d.currentHand]
      d1 == [d EXCEPT !.repCounter = @ + 1,
                      !.currentSetReps = Append(@, repData),
                      !.lastRepEndTime = repEndTime]
      d2 == checkFatigue(d1, repData)
      d3 == IF Len(d2.baselineVelocities) < baselineSize
            THEN [d2 EXCEPT !.baselineVelocities = Append(@, peakVelocity),
                            !.baselinePowers = Append(@, power)]
            ELSE d2
      d4 == [d3 EXCEPT !.repInProgress = FALSE, !.phaseHistory = <<>>]
  IN notifyRepCallbacks(Emit(d4, "rep", repData), repData)

finalizeSet(d) ==
  IF Len(d.currentSetReps) < d.config.setDetection.minRepsForSet
  THEN [d EXCEPT !.currentSetReps = <<>>]
  ELSE
    LET reps == d.currentSetReps
        endTime == d.lastRepEndTime
        PeakVelocity(r) == r.peakVelocity
        velocities == Map(reps, PeakVelocity)
        Power(r) == r.power
        powers == Map(reps, Power)
        firstRepVel == velocities[1]
        lastRepVel == velocities[Len(velocities)]
        velocityDropoff == Quotient((firstRepVel - lastRepVel) * 100, firstRepVel)
        \* velocityDropoff / 50 + (powers[0] - powers[last]) / powers[0] / 2
        fatigueFactor ==
          MathMin1(MathMax0(
            Plus(Quotient(velocityDropoff.num, velocityDropoff.den * 50),
                 Quotient(powers[1] - powers[Len(powers)], powers[1] * 2))))
        setData == [setNumber |-> d.setCounter + 1,
                    startTime |-> d.currentSetStartTime,
                    endTime |-> endTime,
                    duration |-> endTime - d.currentSetStartTime,
                    hand |-> d.currentHand,
                    reps |-> reps,
                    totalReps |-> Len(reps),
                    averageVelocity |-> [num |-> SeqSum(velocities), den |-> Len(velocities)],
                    peakVelocity |-> SeqMax(velocities),
                    velocityDropoff |-> velocityDropoff,
                    averagePower |-> [num |-> SeqSum(powers), den |-> Len(powers)],
                    fatigueFactor |-> fatigueFactor,
                    kettlebellWeight |-> d.config.kettlebellWeight]
        d1 == [d EXCEPT !.setCounter = @ + 1,
                        !.sets = Append(@, setData),
                        !.currentSetReps = <<>>,
                        !.baselineVelocities = <<>>,
                        !.baselinePowers = <<>>]
    IN Emit(d1, "set", setData)

\* ------------------------------------------------------ the two onPhaseChange
\* Fault seeded for the repetition lifecycle: a handler that opens a
\* repetition at every transition into Backswing.
onPhaseChangeReopening(d, oldPhase, newPhase, timestamp) ==
  LET d1 == IF d.phaseStartTime > 0
            THEN [d EXCEPT !.phaseHistory =
                     Append(@, [phase |-> oldPhase, startTime |-> d.phaseStartTime,
                                endTime |-> timestamp])]
            ELSE d
      d3 == Emit([d1 EXCEPT !.currentPhase = newPhase, !.phaseStartTime = timestamp],
                 "phase", newPhase)
  IN IF newPhase = BACKSWING
     THEN [d3 EXCEPT !.repInProgress = TRUE, !.currentRepStartTime = timestamp,
                     !.phaseHistory = <<>>]
     ELSE IF oldPhase = LOCKOUT /\ newPhase = DROP /\ d3.repInProgress
     THEN finalizeRep(d3, timestamp)
     ELSE d3

\* Fault seeded for the phases list: a handler that clears the phase history
\* at every transition into Backswing.
onPhaseChangeClearing(d, oldPhase, newPhase, timestamp) ==
  LET d1 == IF d.phaseStartTime > 0
            THEN [d EXCEPT !.phaseHistory =
                     Append(@, [phase |-> oldPhase, startTime |-> d.phaseStartTime,
                                endTime |-> timestamp])]
            ELSE d
      d3 == Emit([d1 EXCEPT !.currentPhase = newPhase, !.phaseStartTime = timestamp],
                 "phase", newPhase)
  IN IF newPhase = BACKSWING
     THEN [d3 EXCEPT !.repInProgress = TRUE,
                     !.currentRepStartTime = IF d3.repInProgress THEN @ ELSE timestamp,
                     !.phaseHistory = <<>>]
     ELSE IF oldPhase = LOCKOUT /\ newPhase = DROP
     THEN IF d3.repInProgress THEN finalizeRep(d3, timestamp) ELSE d3
     ELSE IF newPhase = IDLE /\ d3.repInProgress
     THEN [d3 EXCEPT !.repInProgress = FALSE, !.phaseHistory = <<>>]
     ELSE d3

\* Fault seeded for the order of delivery: a handler that notifies the
\* phase subscribers after it has handled the repetition.
onPhaseChangeNotifyingLast(d, oldPhase, newPhase, timestamp) ==
  LET d1 == IF d.phaseStartTime > 0
            THEN [d EXCEPT !.phaseHistory =
                     Append(@, [phase |-> oldPhase, startTime |-> d.phaseStartTime,
                                endTime |-> timestamp])]
            ELSE d
      d2 == [d1 EXCEPT !.currentPhase = newPhase, !.phaseStartTime = timestamp]
      d3 == IF newPhase = BACKSWING /\ ~d2.repInProgress
            THEN [d2 EXCEPT !.repInProgress = TRUE,
                            !.currentRepStartTime = timestamp,
                            !.phaseHistory = <<>>]
            ELSE IF oldPhase = LOCKOUT /\ newPhase = DROP
            THEN IF d2.repInProgress THEN finalizeRep(d2, timestamp) ELSE d2
            ELSE IF newPhase = IDLE /\ d2.repInProgress
            THEN [d2 EXCEPT !.repInProgress = FALSE, !.phaseHistory = <<>>]
            ELSE d2
  IN Emit(d3, "phase", newPhase)

\* The private handler, lines 366-401.
onPhaseChangePrivate(d, oldPhase, newPhase, timestamp) ==
  LET d1 == IF d.phaseStartTime > 0
            THEN [d EXCEPT !.phaseHistory =
                     Append(@, [phase |-> oldPhase, startTime |-> d.phaseStartTime,
                                endTime |-> timestamp])]
            ELSE d
      d2 == [d1 EXCEPT !.currentPhase = newPhase, !.phaseStartTime = timestamp]
      d3 == Emit(d2, "phase", newPhase)
  IN IF newPhase = BACKSWING /\ ~d3.repInProgress
     THEN [d3 EXCEPT !.repInProgress = TRUE,
                     !.currentRepStartTime = timestamp,
                     !.phaseHistory = <<>>]
     ELSE IF oldPhase = LOCKOUT /\ newPhase = DROP
     THEN IF d3.repInProgress THEN finalizeRep(d3, timestamp) ELSE d3
     ELSE IF newPhase = IDLE /\ d3.repInProgress
     THEN [d3 EXCEPT !.repInProgress = FALSE, !.phaseHistory = <<>>]
     ELSE d3

\* The public registration, lines 684-690: the callback is appended to the
\* list (the unsubscribe closure it returns is dropped by processFrame).
onPhaseChange(d, callback) ==
  [d EXCEPT !.phaseCallbacks = Append(@, callback)]

\* The call this.onPhaseChange(this.currentPhase, newPhase, timestamp) of
\* line 261.  As built the member is the registration, which reads its first
\* argument only; "handler" binds the call to the three-argument method.
callOnPhaseChange(binding, d, oldPhase, newPhase, timestamp) ==
  IF binding = "handler"
  THEN onPhaseChangePrivate(d, oldPhase, newPhase, timestamp)
  ELSE onPhaseChange(d, oldPhase)

\* The filter's lastTimestamp before its first update (null).
NoTimestamp == -1

\* ---------------------------------------------------------- KalmanFilter1D
\* The filter's numbers are fixed point: Second is 1.0 (and one second), so
\* that a millisecond (3) and the default period of 1/30 s (100) are whole.
\* Products and quotients are rounded down to the unit.
Second == 3 * 1000

Mul(a, b) == (a * b) \div Second

Div(a, b) == (a * Second) \div b

\* The configuration the detector constructs its filter with (lines
\* 184-187), the variances defaulted by the filter's constructor.
FilterConfig ==
  [processNoise |-> Second \div 10, measurementNoise |-> Second \div 5,
   initialPositionVariance |-> Second, initialVelocityVariance |-> Second]

InitialState(cfg, position) ==
  [position |-> position, velocity |-> 0,
   positionVariance |-> cfg.initialPositionVariance,
   velocityVariance |-> cfg.initialVelocityVariance,
   covariance |-> 0]

KalmanFilter1D(cfg) ==
  [config |-> cfg, state |-> InitialState(cfg, 0),
   lastTimestamp |-> NoTimestamp]

\* Fault seeded for reset(): the last timestamp is kept.
KalmanResetKeepingTimestamp(f, initialPosition) ==
  [f EXCEPT !.state = InitialState(f.config, initialPosition)]

KalmanReset(f, initialPosition) ==
  [f EXCEPT !.state = InitialState(f.config, initialPosition),
            !.lastTimestamp = NoTimestamp]

\* Fault seeded for the steady state: a prediction that advances the
\* variances and leaves the position where it is.
predictKeepingPosition(f, dt) ==
  LET st == f.state
      dt2 == Mul(dt, dt)
  IN [f EXCEPT !.state =
        [st EXCEPT
           !.positionVariance = st.positionVariance + 2 * Mul(dt, st.covariance)
                                  + Mul(dt2, st.velocityVariance)
                                  + Mul(f.config.processNoise, dt2),
           !.velocityVariance = st.velocityVariance + f.config.processNoise,
           !.covariance = st.covariance + Mul(dt, st.velocityVariance)
                            + Mul(f.config.processNoise, dt)]]

predict(f, dt) ==
  LET st == f.state
      dt2 == Mul(dt, dt)
  IN [f EXCEPT !.state =
        [st EXCEPT
           !.position = st.position + Mul(st.velocity, dt),
           !.positionVariance = st.positionVariance + 2 * Mul(dt, st.covariance)
                                  + Mul(dt2, st.velocityVariance)
                                  + Mul(f.config.processNoise, dt2),
           !.velocityVariance = st.velocityVariance + f.config.processNoise,
           !.covariance = st.covariance + Mul(dt, st.velocityVariance)
                            + Mul(f.config.processNoise, dt)]]

\* Fault seeded for the time step: the difference of the timestamps, not
\* clamped.
effectiveDtUnclamped(f, timestamp) ==
  IF f.lastTimestamp # NoTimestamp
  THEN ((timestamp - f.lastTimestamp) * Second) \div 1000
  ELSE Second \div 30

\* The dt of update for timestamps in milliseconds: 1/30 s with no previous
\* timestamp, else the difference in seconds between 0.001 and 0.5.
effectiveDt(f, timestamp) ==
  IF f.lastTimestamp # NoTimestamp
  THEN LET dt == ((timestamp - f.lastTimestamp) * Second) \div 1000
           upper == IF dt < Second \div 2 THEN dt ELSE Second \div 2
       IN IF upper > Second \div 1000 THEN upper ELSE Second \div 1000
  ELSE Second \div 30

\* update from line 86 on, with the dt of lines 81-85: the filter it leaves
\* (the state it returns is a copy of the filter's).
updateWith(f, measurement, timestamp, dt) ==
  LET p == predict([f EXCEPT !.lastTimestamp = timestamp], dt)
      st == p.state
      innovation == measurement - st.position
      innovationVariance == st.positionVariance + p.config.measurementNoise
      kalmanGainPosition == Div(st.positionVariance, innovationVariance)
      kalmanGainVelocity == Div(st.covariance, innovationVariance)
  IN [p EXCEPT !.state =
        [position |-> st.position + Mul(kalmanGainPosition, innovation),
         velocity |-> st.velocity + Mul(kalmanGainVelocity, innovation),
         positionVariance |-> Mul(Second - kalmanGainPosition, st.positionVariance),
         velocityVariance |-> st.velocityVariance
                                - Mul(kalmanGainVelocity, st.covariance),
         covariance |-> Mul(Second - kalmanGainPosition, st.covariance)]]

update(f, measurement, timestamp) ==
  updateWith(f, measurement, timestamp, effectiveDt(f, timestamp))

\* ------------------------------------------------------------ processFrame

\* KalmanFilter1D.update as the detector uses it: the estimate it returns
\* for this frame is part of the frame input (frame.velocity); the filter
\* keeps the timestamp and the estimate.
velocityFilterUpdate(filter, estimate, timestamp) ==
  [lastTimestamp |-> timestamp, velocity |-> estimate]

velocityFilterReset == [lastTimestamp |-> NoTimestamp, velocity |-> 0]

\* (hipHeight - y) / (hipHeight - shoulderHeight), in percent.
heightRatioOf(frame) ==
  ((frame.hipHeight - frame.y) * 100) \div (frame.hipHeight - frame.shoulderHeight)

\* Fault seeded for the history bound: only the velocity buffer is shifted.
pushHistoryShiftingVelocity(d, frame, verticalVelocity) ==
  LET t == frame.timestamp
      d1 == [d EXCEPT
               !.velocityHistory = Append(@, [time |-> t, velocity |-> verticalVelocity]),
               !.heightHistory = Append(@, [time |-> t, height |-> 100 - frame.y]),
               !.angleHistory = Append(@, [time |-> t, angles |-> frame.jointAngles])]
  IN IF Len(d1.velocityHistory) > maxHistoryLength
     THEN [d1 EXCEPT !.velocityHistory = Tail(@)]
     ELSE d1

pushHistory(d, frame, verticalVelocity) ==
  LET t == frame.timestamp
      d1 == [d EXCEPT
               !.velocityHistory = Append(@, [time |-> t, velocity |-> verticalVelocity]),
               !.heightHistory = Append(@, [time |-> t, height |-> 100 - frame.y]),
               !.angleHistory = Append(@, [time |-> t, angles |-> frame.jointAngles])]
  IN IF Len(d1.velocityHistory) > maxHistoryLength
     THEN [d1 EXCEPT !.velocityHistory = Tail(@),
                     !.heightHistory = Tail(@),
                     !.angleHistory = Tail(@)]
     ELSE d1

\* Fault seeded for the gap rule: the phase is not consulted.
checkSetGapInAnyPhase(d, timestamp) ==
  IF /\ Len(d.currentSetReps) > 0
     /\ timestamp - d.lastRepEndTime > d.config.setDetection.maxRepGap
  THEN [finalizeSet(d) EXCEPT !.currentSetStartTime = timestamp]
  ELSE d

checkSetGap(d, timestamp) ==
  IF /\ Len(d.currentSetReps) > 0
     /\ timestamp - d.lastRepEndTime > d.config.setDetection.maxRepGap
     /\ d.currentPhase = IDLE
  THEN [finalizeSet(d) EXCEPT !.currentSetStartTime = timestamp]
  ELSE d

\* Fault seeded for the pause: a processFrame that records the sample
\* whether or not the detector is active.
processFrameWhilePaused(binding, d, frame) ==
  pushHistory(d, frame, frame.velocity)

processFrame(binding, d, frame) ==
  IF ~d.isActive THEN d
  ELSE
    LET timestamp == frame.timestamp
        d0 == [d EXCEPT !.velocityFilter =
                  velocityFilterUpdate(@, frame.velocity, timestamp)]
        verticalVelocity == d0.velocityFilter.velocity
        heightRatio == heightRatioOf(frame)
        d1 == pushHistory(d0, frame, verticalVelocity)
        newPhase == detectPhase(d1, verticalVelocity, heightRatio,
                                frame.jointAngles, timestamp)
        d2 == IF newPhase # d1.currentPhase
              THEN callOnPhaseChange(binding, d1, d1.currentPhase, newPhase, timestamp)
              ELSE d1
    IN checkSetGap(d2, timestamp)

\* ------------------------------------------------------------ the public API
RECURSIVE FlatMapReps(_)
\* sets.flatMap(s => s.reps)
FlatMapReps(ss) ==
  IF ss = <<>> THEN <<>> ELSE Head(ss).reps \o FlatMapReps(Tail(ss))

\* What stop() has returned before it is first called.
NoSessionData == [sessionId |-> "none"]

\* totalWork is kept in watt milliseconds (the code divides each duration by
\* 1000).
getSessionData(d, endTime) ==
  LET allReps == FlatMapReps(d.sets)
      PeakVelocity(r) == r.peakVelocity
      Power(r) == r.power
      Work(r) == r.power * r.duration
      allVelocities == Map(allReps, PeakVelocity)
      allPowers == Map(allReps, Power)
  IN [sessionId |-> <<"session", d.sessionStartTime>>,
      startTime |-> d.sessionStartTime,
      endTime |-> endTime,
      duration |-> endTime - d.sessionStartTime,
      kettlebellWeight |-> d.config.kettlebellWeight,
      sets |-> d.sets,
      totalReps |-> Len(allReps),
      totalSets |-> Len(d.sets),
      averageVelocity |-> IF Len(allVelocities) > 0
                          THEN Quotient(SeqSum(allVelocities), Len(allVelocities))
                          ELSE Quotient(0, 1),
      peakVelocity |-> IF Len(allVelocities) > 0 THEN SeqMax(allVelocities) ELSE 0,
      averagePower |-> IF Len(allPowers) > 0
                       THEN Quotient(SeqSum(allPowers), Len(allPowers))
                       ELSE Quotient(0, 1),
      totalWork |-> SeqSum(Map(allReps, Work)),
      fatigueAlerts |-> d.fatigueAlerts]

\* Fault seeded for the repetition numbering: a switchHand that restarts the
\* repetition counter.
switchHandRestartingCount(d, hand, performanceNow) ==
  [d EXCEPT !.currentHand = hand, !.currentSetStartTime = performanceNow,
            !.currentSetReps = <<>>, !.repCounter = 0]

\* Fault seeded for the abandoned repetition: a reset that leaves the
\* repetition open.
resetKeepingRepetition(d) ==
  [d EXCEPT !.currentPhase = IDLE, !.phaseStartTime = 0,
            !.velocityHistory = <<>>, !.heightHistory = <<>>, !.angleHistory = <<>>,
            !.velocityFilter = velocityFilterReset]

reset(d) ==
  [d EXCEPT !.currentPhase = IDLE, !.phaseStartTime = 0, !.phaseHistory = <<>>,
            !.repInProgress = FALSE, !.currentRepStartTime = 0,
            !.velocityHistory = <<>>, !.heightHistory = <<>>, !.angleHistory = <<>>,
            !.velocityFilter = velocityFilterReset]

start(d, hand, performanceNow) ==
  reset([d EXCEPT !.isActive = TRUE, !.currentHand = hand,
                  !.sessionStartTime = performanceNow,
                  !.currentSetStartTime = performanceNow])

\* Fault seeded for stop(): the buffer is left as it is.
stopLeavingBuffer(d) == [d EXCEPT !.isActive = FALSE]

stop(d) ==
  LET d1 == [d EXCEPT !.isActive = FALSE]
  IN IF Len(d1.currentSetReps) >= d1.config.setDetection.minRepsForSet
     THEN finalizeSet(d1) ELSE d1

pause(d) == [d EXCEPT !.isActive = FALSE]

resume(d) == [d EXCEPT !.isActive = TRUE]

switchHand(d, hand, performanceNow) ==
  LET d1 == IF Len(d.currentSetReps) > 0 THEN finalizeSet(d) ELSE d
  IN [d1 EXCEPT !.currentHand = hand, !.currentSetStartTime = performanceNow]

\* ------------------------------------------------------ PoseDetectionService
\* The service's dominant-hand fields (lines 111-120) for a configured hand.
PoseDetectionService(dominantHand) ==
  [config |-> [dominantHand |-> dominantHand],
   dominantHand |-> "right",
   handActivityCount |-> [left |-> 0, right |-> 0],
   isRunning |-> FALSE]

\* detectDominantHand (lines 443-465); faster is the wrist whose speed
\* exceeds the other's by more than 0.05, or "neither".
detectDominantHand(s, faster) ==
  IF s.config.dominantHand # "auto"
  THEN [s EXCEPT !.dominantHand = s.config.dominantHand]
  ELSE LET count == IF faster = "left"
                    THEN [s.handActivityCount EXCEPT !.left = @ + 1]
                    ELSE IF faster = "right"
                    THEN [s.handActivityCount EXCEPT !.right = @ + 1]
                    ELSE s.handActivityCount
       IN [s EXCEPT !.handActivityCount = count,
                    !.dominantHand = IF count.left > count.right + 10 THEN "left"
                                     ELSE IF count.right > count.left + 10 THEN "right"
                                     ELSE @]

setDominantHand(s, hand) ==
  [s EXCEPT !.dominantHand = hand, !.config.dominantHand = hand,
            !.handActivityCount = [left |-> 0, right |-> 0]]

\* -------------------------------------------------------------- environment
\* The frame periods of the environment, and the times it lets pass without
\* a frame: with the next frame's period, longer than restDuration and
\* longer than maxRepGap.
FramePeriods == {100}
Rests == {500, 5000}

Angles(left, right) ==
  [leftShoulderAbduction |-> left, rightShoulderAbduction |-> right]

Frame(velocity, y, angles) ==
  [timestamp |-> 0, velocity |-> velocity, y |-> y, jointAngles |-> angles,
   shoulderHeight |-> 0, hipHeight |-> 100]

\* The frames the environment sends.  With shoulderHeight 0 and hipHeight
\* 100 the height ratio is 100 - y percent: 10 % for Down, 21 % for Up (the
\* one ratio that neither ends Pull nor ends Drop), 80 % for the others.
Down == Frame(-20, 90, Angles(100, 100))
Up == Frame(10, 79, Angles(100, 100))
PullAt(velocity) == Frame(velocity, 20, Angles(100, 100))
Overhead(left, right) == Frame(0, 20, Angles(left, right))

\* Spec and SpecHandler: the overhead frames raise one arm.
FrameInputs ==
  {Down, Up, PullAt(60), PullAt(100), Overhead(100, 160), Overhead(160, 100)}

\* SpecSession: three pull velocities, and both arms overhead.
SessionInputs ==
  {Down, Up, PullAt(60), PullAt(90), PullAt(100), Overhead(160, 160)}

Hands == {"left", "right"}

OtherHand(hand) == IF hand = "left" THEN "right" ELSE "left"

\* The canonical cycle of the phase machine; Return also ends in Idle.
Successor(p) ==
  CASE p = IDLE -> BACKSWING
    [] p = BACKSWING -> HIKE
    [] p = HIKE -> PULL
    [] p = PULL -> PUNCH
    [] p = PUNCH -> LOCKOUT
    [] p = LOCKOUT -> DROP
    [] p = DROP -> RETURN
    [] p = RETURN -> BACKSWING

\* Scenario B, followed frame by frame on a newly constructed detector from
\* its first start(): step k says that the first k frames met, in turn, the
\* documented conditions of Idle->Backswing, ..., Lockout->Drop; -1 says the
\* run is not (or no longer) that scenario.
ScenarioOff == [step |-> -1, peak |-> 0, hand |-> "right"]

ScenarioCondition(sc, frame) ==
  LET v == frame.velocity
      h == heightRatioOf(frame)
      a == IF sc.hand = "left" THEN frame.jointAngles.leftShoulderAbduction
           ELSE frame.jointAngles.rightShoulderAbduction
      peak == IF v > sc.peak THEN v ELSE sc.peak
  IN CASE sc.step = 0 -> v < backswingMin /\ h < backswingHeightRatio
       [] sc.step = 1 -> v > 0 /\ h < backswingHeightRatio
       [] sc.step = 2 -> v > pullMin
       [] sc.step = 3 -> h * 10 > lockoutHeightRatio * 7 /\ v * 2 < peak
       [] sc.step = 4 -> Abs(v) < lockoutMax /\ h > lockoutHeightRatio /\ a > overheadAngle
       [] sc.step = 5 -> v < dropVelocity
       [] OTHER -> FALSE

ScenarioAfter(sc, frame) ==
  IF sc.step >= 0 /\ ScenarioCondition(sc, frame)
  THEN [sc EXCEPT !.step = @ + 1,
                  !.peak = IF sc.step = 2 THEN frame.velocity ELSE @]
  ELSE ScenarioOff

\* ------------------------------------------------------------------ actions
\* One frame, a frame period after the clock's present value.  A frame that does
\* not advance the run (the phase machine along its cycle; as built, where
\* the phase never moves, scenario B) is a departure.
ProcessFrame(binding, inputs, maxFrames, maxExtra) ==
  /\ frames < maxFrames
  /\ \E f \in inputs, period \in FramePeriods :
     \E frame \in {[f EXCEPT !.timestamp = now + period]} :
     \E d \in {processFrame(binding, Detector, frame)} :
       LET sc == IF isActive THEN ScenarioAfter(scenario, frame) ELSE ScenarioOff
           advances == IF binding = "handler"
                       THEN /\ isActive
                            /\ \/ d.currentPhase = Successor(currentPhase)
                               \/ currentPhase = RETURN /\ d.currentPhase = IDLE
                       ELSE sc.step > 0
           cost == IF advances THEN 0 ELSE 1
       IN /\ extra + cost <= maxExtra
          /\ Becomes(d)
          /\ now' = frame.timestamp
          /\ frames' = frames + 1
          /\ extra' = extra + cost
          /\ scenario' = sc
          /\ lastFrame' = frame
          /\ lastCall' = "processFrame"
          /\ UNCHANGED <<calls, returned, kalmanFilter, lastUpdate,
                 filterLog, poseVars, peakSincePull>>

\* Time passes without a frame.
Rest(maxExtra) ==
  /\ calls > 0
  /\ extra < maxExtra
  /\ \E dt \in Rests : now' = now + dt
  /\ extra' = extra + 1
  /\ UNCHANGED <<detectorVars, frames, calls, scenario, lastFrame, lastCall,
                 returned, kalmanFilter, lastUpdate,
                 filterLog, poseVars, peakSincePull>>

\* The opening start() of a run.
Open ==
  /\ calls = 0
  /\ \E hand \in Hands :
       /\ Becomes(start(Detector, hand, now))
       /\ scenario' = [step |-> 0, peak |-> 0, hand |-> hand]
  /\ calls' = 1
  /\ lastCall' = "start"
  /\ UNCHANGED <<now, frames, extra, lastFrame, returned, kalmanFilter, lastUpdate,
                 filterLog, poseVars, peakSincePull>>

\* What the filter's update has last been called with: nothing yet.
NoUpdate == [timestamp |-> NoTimestamp]

\* The stores as the page loads them, and the pose callback's frame before
\* the first pose result.
defaultSettings == [dominantHand |-> "auto"]

initialSessionState == [isActive |-> FALSE, dominantHand |-> "right"]

NoPoseFrame == [dominantHand |-> "none"]

\* The log of a filter just constructed: no reset, position 0, no update.
NoLog == [reset |-> FALSE, position |-> 0, previous |-> NoTimestamp,
          updates |-> <<>>]

\* A further API call of a run: the method called and the detector it
\* leaves.
Call(method, d, maxExtra) ==
  /\ calls > 0
  /\ extra < maxExtra
  /\ Becomes(d)
  /\ lastCall' = method
  /\ calls' = calls + 1
  /\ extra' = extra + 1
  /\ scenario' = ScenarioOff
  /\ UNCHANGED <<now, frames, lastFrame, kalmanFilter, lastUpdate,
                 filterLog, poseVars, peakSincePull>>

Start(maxExtra) ==
  /\ \E hand \in Hands : Call("start", start(Detector, hand, now), maxExtra)
  /\ UNCHANGED returned

\* stop() returns the snapshot taken after the set is finalized.
Stop(maxExtra) ==
  /\ Call("stop", stop(Detector), maxExtra)
  /\ returned' = getSessionData(stop(Detector), now)

Reset(maxExtra) == Call("reset", reset(Detector), maxExtra) /\ UNCHANGED returned

Pause(maxExtra) == Call("pause", pause(Detector), maxExtra) /\ UNCHANGED returned

Resume(maxExtra) == Call("resume", resume(Detector), maxExtra) /\ UNCHANGED returned

SwitchHand(maxExtra) ==
  /\ \E hand \in Hands : Call("switchHand", switchHand(Detector, hand, now), maxExtra)
  /\ UNCHANGED returned

vars == <<detectorVars, now, frames, extra, calls, scenario, lastFrame, lastCall,
          returned, kalmanFilter, lastUpdate,
                 filterLog, poseVars, peakSincePull>>

\* The state after construction.
Init ==
  /\ config \in Configs
  /\ currentPhase = IDLE
  /\ phaseStartTime = 0
  /\ phaseHistory = <<>>
  /\ repInProgress = FALSE
  /\ currentRepStartTime = 0
  /\ velocityHistory = <<>>
  /\ heightHistory = <<>>
  /\ angleHistory = <<>>
  /\ currentSetStartTime = 0
  /\ currentSetReps = <<>>
  /\ lastRepEndTime = 0
  /\ sessionStartTime = 0
  /\ sets = <<>>
  /\ fatigueAlerts = <<>>
  /\ baselineVelocities = <<>>
  /\ baselinePowers = <<>>
  /\ velocityFilter = velocityFilterReset
  /\ phaseCallbacks = <<>>
  /\ repCallbacks = <<>>
  /\ repDeliveries = <<>>
  /\ isActive = FALSE
  /\ currentHand = "right"
  /\ setCounter = 0
  /\ repCounter = 0
  /\ events = <<>>
  /\ now = 0
  /\ frames = 0
  /\ extra = 0
  /\ calls = 0
  /\ scenario = ScenarioOff
  /\ lastFrame = Frame(0, 0, Angles(0, 0))
  /\ lastCall = "constructor"
  /\ returned = NoSessionData
  /\ kalmanFilter = KalmanFilter1D(FilterConfig)
  /\ lastUpdate = NoUpdate
  /\ filterLog = NoLog
  /\ settings = defaultSettings
  /\ poseService = PoseDetectionService(settings.dominantHand)
  /\ sessionState = initialSessionState
  /\ poseFrame = NoPoseFrame
  /\ wristActivity = [left |-> 0, right |-> 0]
  /\ pc = "idle"
  /\ peakSincePull = 0

\* The detector as built: line 261 reaches the callback registration.
Next ==
  \/ Open
  \/ Start(MaxExtra)
  \/ Stop(MaxExtra)
  \/ Reset(MaxExtra)
  \/ Pause(MaxExtra)
  \/ Resume(MaxExtra)
  \/ SwitchHand(MaxExtra)
  \/ Rest(MaxExtra)
  \/ ProcessFrame("registration", FrameInputs, MaxFrames, MaxExtra)

Spec == Init /\ [][Next]_vars

\* The detector with line 261 bound to the three-argument handler.
NextHandler ==
  \/ Open
  \/ Start(MaxExtra)
  \/ Stop(MaxExtra)
  \/ Reset(MaxExtra)
  \/ Pause(MaxExtra)
  \/ Resume(MaxExtra)
  \/ SwitchHand(MaxExtra)
  \/ Rest(MaxExtra)
  \/ ProcessFrame("handler", FrameInputs, MaxFrames, MaxExtra)

SpecHandler == Init /\ [][NextHandler]_vars

\* Whole sets under the handler binding: start(), then frames that each
\* advance the cycle, with hand switches between repetitions.
SessionSwitch ==
  /\ calls > 0
  /\ calls < MaxSessionCalls
  /\ ~repInProgress
  /\ Becomes(switchHand(Detector, OtherHand(currentHand), now))
  /\ calls' = calls + 1
  /\ scenario' = ScenarioOff
  /\ lastCall' = "switchHand"
  /\ UNCHANGED <<now, frames, extra, lastFrame, returned, kalmanFilter, lastUpdate,
                 filterLog, poseVars, peakSincePull>>

NextSession ==
  \/ Open
  \/ SessionSwitch
  \/ ProcessFrame("handler", SessionInputs, MaxSessionFrames, 0)

SpecSession == Init /\ [][NextSession]_vars

\* The set gap under the handler binding: one repetition, then frames in
\* which nothing moves, a second apart, for as long as they keep arriving;
\* before them the frames may drop out once the repetition is done.  The
\* frames of the repetition each advance the cycle.
IdleInputs == {Down, Up, PullAt(100), Overhead(160, 160)}

StillPeriods == {1000}

StillFrame ==
  /\ frames < MaxIdleFrames
  /\ currentSetReps # <<>>
  /\ currentPhase \in {RETURN, IDLE}
  /\ \E period \in StillPeriods :
       \E frame \in {[Overhead(160, 160) EXCEPT !.timestamp = now + period]} :
         \E d \in {processFrame("handler", Detector, frame)} :
           /\ Becomes(d)
           /\ now' = frame.timestamp
           /\ lastFrame' = frame
  /\ frames' = frames + 1
  /\ lastCall' = "processFrame"
  /\ scenario' = ScenarioOff
  /\ UNCHANGED <<extra, calls, returned, kalmanFilter, lastUpdate,
                 filterLog, poseVars, peakSincePull>>

Dropout ==
  /\ currentSetReps # <<>>
  /\ currentPhase # IDLE
  /\ Rest(MaxExtra)

NextIdle ==
  \/ Open
  \/ Dropout
  \/ ProcessFrame("handler", IdleInputs, MaxFrames, extra)
  \/ StillFrame

\* Frames keep arriving: a still frame that can be processed is.
SpecIdle == Init /\ [][NextIdle]_vars /\ WF_vars(StillFrame)

\* Sessions under the handler binding: frames that each advance the cycle,
\* with stop(), start() for either hand, pause() and resume() between them,
\* and frames sent while the detector is not active.
ControlInputs == {Down, Up, PullAt(100), Overhead(160, 160)}

ControlCall(method, d) ==
  /\ calls > 0
  /\ calls < MaxControlCalls
  /\ Becomes(d)
  /\ calls' = calls + 1
  /\ lastCall' = method
  /\ scenario' = ScenarioOff
  /\ UNCHANGED <<now, frames, extra, lastFrame, kalmanFilter, lastUpdate,
                 filterLog, poseVars, peakSincePull>>

ControlStop ==
  /\ isActive
  /\ ControlCall("stop", stop(Detector))
  /\ returned' = getSessionData(stop(Detector), now)

ControlStart ==
  /\ ~isActive
  /\ \E hand \in Hands : ControlCall("start", start(Detector, hand, now))
  /\ UNCHANGED returned

ControlPause ==
  /\ isActive
  /\ ControlCall("pause", pause(Detector))
  /\ UNCHANGED returned

ControlResume ==
  /\ ~isActive
  /\ ControlCall("resume", resume(Detector))
  /\ UNCHANGED returned

InactiveFrame ==
  /\ calls > 0
  /\ ~isActive
  /\ frames < MaxControlFrames
  /\ extra < MaxInactiveFrames
  /\ \E f \in ControlInputs, period \in FramePeriods :
       \E frame \in {[f EXCEPT !.timestamp = now + period]} :
         \E d \in {processFrame("handler", Detector, frame)} :
           /\ Becomes(d)
           /\ now' = frame.timestamp
           /\ lastFrame' = frame
  /\ frames' = frames + 1
  /\ extra' = extra + 1
  /\ lastCall' = "processFrame"
  /\ scenario' = ScenarioOff
  /\ UNCHANGED <<calls, returned, kalmanFilter, lastUpdate,
                 filterLog, poseVars, peakSincePull>>

NextControl ==
  \/ Open
  \/ ControlStop
  \/ ControlStart
  \/ ControlPause
  \/ ControlResume
  \/ InactiveFrame
  \/ ProcessFrame("handler", ControlInputs, MaxControlFrames, extra)

SpecControl == Init /\ [][NextControl]_vars

\* A held lockout under the handler binding: frames that each advance the
\* cycle, frames that hold the arm overhead in Lockout, and hand switches
\* between repetitions.
HoldInputs == {Down, Up, PullAt(100), Overhead(160, 160)}

HoldFrame ==
  /\ frames < MaxHoldFrames
  /\ isActive
  /\ currentPhase = LOCKOUT
  /\ \E period \in FramePeriods :
       \E frame \in {[Overhead(160, 160) EXCEPT !.timestamp = now + period]} :
         \E d \in {processFrame("handler", Detector, frame)} :
           /\ Becomes(d)
           /\ now' = frame.timestamp
           /\ lastFrame' = frame
  /\ frames' = frames + 1
  /\ lastCall' = "processFrame"
  /\ scenario' = ScenarioOff
  /\ UNCHANGED <<extra, calls, returned, kalmanFilter, lastUpdate,
                 filterLog, poseVars, peakSincePull>>

NextHold ==
  \/ Open
  \/ SessionSwitch
  \/ HoldFrame
  \/ ProcessFrame("handler", HoldInputs, MaxHoldFrames, 0)

SpecHold == Init /\ [][NextHold]_vars

\* The end of a repetition under the handler binding: frames that each
\* advance the cycle, and in Return frames in which the wrist still moves
\* (0.10 m/s) or is still.
ReturnInputs == {Up, Overhead(160, 160)}

ReturnFrame ==
  /\ frames < MaxReturnFrames
  /\ isActive
  /\ currentPhase = RETURN
  /\ \E f \in ReturnInputs, period \in FramePeriods :
       \E frame \in {[f EXCEPT !.timestamp = now + period]} :
         \E d \in {processFrame("handler", Detector, frame)} :
           /\ Becomes(d)
           /\ now' = frame.timestamp
           /\ lastFrame' = frame
  /\ frames' = frames + 1
  /\ lastCall' = "processFrame"
  /\ scenario' = ScenarioOff
  /\ UNCHANGED <<extra, calls, returned, kalmanFilter, lastUpdate, filterLog,
                 poseVars, peakSincePull>>

NextReturn ==
  \/ Open
  \/ ReturnFrame
  \/ ProcessFrame("handler", IdleInputs, MaxReturnFrames, 0)

SpecReturn == Init /\ [][NextReturn]_vars

\* A long pull under the handler binding: frames that each advance the
\* cycle, and in Pull frames at 0.40 m/s and 0.60 m/s as well.
PullInputs ==
  {Down, Up, PullAt(40), PullAt(60), PullAt(100), Overhead(160, 160)}

PullHolds == {PullAt(40), PullAt(60)}

PullFrame ==
  /\ frames < MaxPullFrames
  /\ isActive
  /\ \E f \in PullInputs, period \in FramePeriods :
       \E frame \in {[f EXCEPT !.timestamp = now + period]} :
         \E d \in {processFrame("handler", Detector, frame)} :
           /\ \/ d.currentPhase = Successor(currentPhase)
              \/ currentPhase = PULL /\ f \in PullHolds
           /\ Becomes(d)
           /\ now' = frame.timestamp
           /\ lastFrame' = frame
           /\ peakSincePull' =
                IF d.currentPhase # PULL THEN 0
                ELSE IF currentPhase = PULL /\ peakSincePull > frame.velocity
                THEN peakSincePull
                ELSE frame.velocity
  /\ frames' = frames + 1
  /\ lastCall' = "processFrame"
  /\ scenario' = ScenarioOff
  /\ UNCHANGED <<extra, calls, returned, kalmanFilter, lastUpdate, filterLog,
                 poseVars>>

NextPull == Open \/ PullFrame

SpecPull == Init /\ [][NextPull]_vars

\* The repetition channel under the handler binding: frames that each
\* advance the cycle, with callbacks registered by onRep and removed by their
\* unsubscribe closures at any point between the frames.  A callback may call
\* an unsubscribe closure, its own or another callback's, when it is invoked.
CallbackNames == {"a", "b", "c"}

RepCallbacks ==
  {RepCallback(n, u) : n \in CallbackNames, u \in CallbackNames \cup {"none"}}

ChannelInputs == {Down, Up, PullAt(100), Overhead(160, 160)}

ChannelCall(method, d) ==
  /\ extra < MaxChannelCalls
  /\ Becomes(d)
  /\ extra' = extra + 1
  /\ lastCall' = method
  /\ UNCHANGED <<now, frames, calls, scenario, lastFrame, returned,
                 kalmanFilter, lastUpdate, filterLog, poseVars, peakSincePull>>

OnRep ==
  \E callback \in RepCallbacks :
    /\ \A i \in 1..Len(repCallbacks) : repCallbacks[i].name # callback.name
    /\ ChannelCall("onRep", onRep(Detector, callback))

Unsubscribe ==
  \E i \in 1..Len(repCallbacks) :
    ChannelCall("unsubscribe",
                [Detector EXCEPT !.repCallbacks =
                   Unsubscribed(@, repCallbacks[i].name)])

NextChannel ==
  \/ Open
  \/ OnRep
  \/ Unsubscribe
  \/ ProcessFrame("handler", ChannelInputs, MaxChannelFrames, extra)

SpecChannel == Init /\ [][NextChannel]_vars

\* A KalmanFilter1D on its own: updates with measurements 0.0 and 1.0 at
\* timestamps in any order (equal and decreasing ones included), and resets.
Measurements == {0, Second}

Timestamps == {0, 33, 66, 1000}

Positions == {0, Second}

FilterUpdate ==
  /\ frames < MaxUpdates
  /\ \E measurement \in Measurements, timestamp \in Timestamps :
       /\ kalmanFilter' = update(kalmanFilter, measurement, timestamp)
       /\ lastUpdate' = [measurement |-> measurement, timestamp |-> timestamp,
                         previous |-> kalmanFilter.lastTimestamp,
                         returns |-> update(kalmanFilter, measurement, timestamp).state]
       /\ filterLog' = [filterLog EXCEPT !.updates =
                          Append(@, [measurement |-> measurement,
                                     timestamp |-> timestamp])]
  /\ frames' = frames + 1
  /\ lastCall' = "KalmanFilter1D.update"
  /\ UNCHANGED <<detectorVars, now, extra, calls, scenario, lastFrame, returned,
                 poseVars, peakSincePull>>

FilterReset ==
  /\ calls < MaxResets
  /\ \E initialPosition \in Positions :
       /\ kalmanFilter' = KalmanReset(kalmanFilter, initialPosition)
       /\ filterLog' = [reset |-> TRUE, position |-> initialPosition,
                        previous |-> kalmanFilter.lastTimestamp,
                        updates |-> <<>>]
  /\ calls' = calls + 1
  /\ lastCall' = "KalmanFilter1D.reset"
  /\ UNCHANGED <<detectorVars, now, frames, extra, scenario, lastFrame, returned,
                 lastUpdate, poseVars, peakSincePull>>

NextFilter == FilterUpdate \/ FilterReset

SpecFilter == Init /\ [][NextFilter]_vars

\* A KalmanFilter1D fed one measurement again and again at a constant
\* period, the first time at timestamp 0: the run chooses the measurement
\* with its first update and the period with its second.
SteadyMeasurements == {-Second, Second}

SteadyPeriods == {33, 100}

SteadyUpdate ==
  /\ frames < MaxSteadyUpdates
  /\ \E measurement \in (IF lastUpdate = NoUpdate THEN SteadyMeasurements
                          ELSE {lastUpdate.measurement}),
        timestamp \in (IF lastUpdate = NoUpdate THEN {0}
                        ELSE IF lastUpdate.previous = NoTimestamp
                        THEN {lastUpdate.timestamp + period : period \in SteadyPeriods}
                        ELSE {2 * lastUpdate.timestamp - lastUpdate.previous}) :
       \E f \in {update(kalmanFilter, measurement, timestamp)} :
         /\ kalmanFilter' = f
         /\ lastUpdate' = [measurement |-> measurement, timestamp |-> timestamp,
                           previous |-> kalmanFilter.lastTimestamp,
                           returns |-> f.state]
         /\ filterLog' = [filterLog EXCEPT !.updates =
                            Append(@, [measurement |-> measurement,
                                       timestamp |-> timestamp])]
  /\ frames' = frames + 1
  /\ lastCall' = "KalmanFilter1D.update"
  /\ UNCHANGED <<detectorVars, now, extra, calls, scenario, lastFrame, returned,
                 poseVars, peakSincePull>>

NextSteady == SteadyUpdate

SpecSteady == Init /\ [][NextSteady]_vars

\* The detector as built with its velocity filter in full: kalmanFilter is
\* the detector's velocityFilter, fed -wristPosition.velocityY (lines
\* 236-238; the wrist moves at one speed throughout, which the run chooses
\* with its first frame), and the frame's velocity is the velocity field of
\* the state the filter returns.  Centi is 0.01 in the filter's fixed point.
MeasuredVelocities == {-20, 60}

Centi == Second \div 100

VelocityOpen ==
  /\ calls = 0
  /\ \E hand \in Hands : Becomes(start(Detector, hand, now))
  /\ kalmanFilter' = KalmanReset(kalmanFilter, 0)
  /\ calls' = 1
  /\ lastCall' = "start"
  /\ UNCHANGED <<now, frames, extra, scenario, lastFrame, returned, lastUpdate,
                 filterLog, poseVars, peakSincePull>>

VelocityFrame ==
  /\ isActive
  /\ frames < MaxSteadyUpdates
  /\ \E measured \in (IF lastUpdate = NoUpdate THEN MeasuredVelocities
                       ELSE {lastUpdate.measurement \div Centi}),
        period \in FramePeriods :
       \E f \in {update(kalmanFilter, measured * Centi, now + period)} :
       \E frame \in {[Down EXCEPT !.timestamp = now + period,
                                  !.velocity = f.state.velocity \div Centi]} :
         /\ kalmanFilter' = f
         /\ lastUpdate' = [measurement |-> measured * Centi,
                           timestamp |-> frame.timestamp,
                           previous |-> kalmanFilter.lastTimestamp,
                           returns |-> f.state]
         /\ Becomes(processFrame("registration", Detector, frame))
         /\ now' = frame.timestamp
         /\ lastFrame' = frame
  /\ frames' = frames + 1
  /\ lastCall' = "processFrame"
  /\ UNCHANGED <<extra, calls, scenario, returned, filterLog, poseVars, peakSincePull>>

NextVelocity == VelocityOpen \/ VelocityFrame

SpecVelocity == Init /\ [][NextVelocity]_vars

\* The page (SnatchDetector.svelte) with its pose service and the detector
\* as built: the settings panel, the Start, Stop and Switch buttons, and the
\* pose results of the camera.  handleStart awaits the camera (line 138);
\* pose results can arrive before it goes on.
DominantHandSettings == {"left", "right", "auto"}

Faster == {"left", "right", "neither"}

HandlerCall ==
  /\ calls < MaxPoseCalls
  /\ calls' = calls + 1
  /\ scenario' = ScenarioOff
  /\ UNCHANGED <<now, frames, extra, lastFrame, kalmanFilter, lastUpdate, filterLog,
                 poseFrame,
                 peakSincePull>>

updateSettings ==
  /\ pc = "idle"
  /\ ~sessionState.isActive
  /\ HandlerCall
  /\ \E hand \in DominantHandSettings \ {settings.dominantHand} :
       settings' = [settings EXCEPT !.dominantHand = hand]
  /\ lastCall' = "updateSettings"
  /\ UNCHANGED <<detectorVars, returned, poseService, sessionState, wristActivity, pc>>

\* handleStart up to its await: poseService.start().
handleStart ==
  /\ pc = "idle"
  /\ ~sessionState.isActive
  /\ HandlerCall
  /\ poseService' = [poseService EXCEPT !.isRunning = TRUE]
  /\ pc' = "handleStart"
  /\ lastCall' = "handleStart"
  /\ UNCHANGED <<detectorVars, returned, settings, sessionState, wristActivity>>

\* handleStart after its await (lines 139-145).
handleStartResumed ==
  /\ pc = "handleStart"
  /\ \E hand \in {IF settings.dominantHand = "auto" THEN "right"
                   ELSE settings.dominantHand} :
       /\ Becomes(start(Detector, hand, now))
       /\ poseService' = setDominantHand(poseService, hand)
       /\ sessionState' = [isActive |-> TRUE, dominantHand |-> hand]
  /\ wristActivity' = [left |-> 0, right |-> 0]
  /\ pc' = "idle"
  /\ lastCall' = "start"
  /\ scenario' = ScenarioOff
  /\ UNCHANGED <<now, frames, extra, calls, lastFrame, returned, kalmanFilter,
                 lastUpdate, filterLog, settings, poseFrame,
                 peakSincePull>>

handleStop ==
  /\ pc = "idle"
  /\ sessionState.isActive
  /\ HandlerCall
  /\ Becomes(stop(Detector))
  /\ returned' = getSessionData(stop(Detector), now)
  /\ poseService' = [poseService EXCEPT !.isRunning = FALSE]
  /\ sessionState' = [sessionState EXCEPT !.isActive = FALSE]
  /\ lastCall' = "stop"
  /\ UNCHANGED <<settings, wristActivity, pc>>

handleSwitchHand ==
  /\ pc = "idle"
  /\ sessionState.isActive
  /\ HandlerCall
  /\ \E newHand \in {OtherHand(sessionState.dominantHand)} :
       /\ Becomes(switchHand(Detector, newHand, now))
       /\ poseService' = setDominantHand(poseService, newHand)
       /\ sessionState' = [sessionState EXCEPT !.dominantHand = newHand]
  /\ wristActivity' = [left |-> 0, right |-> 0]
  /\ lastCall' = "switchHand"
  /\ UNCHANGED <<returned, settings, pc>>

\* onPoseResults (lines 229-281) and the page's pose callback (lines 85-91):
\* the frame carries the hand the service has settled on, and goes to the
\* detector while a session is active.  The body in the frame stands still.
onPoseResults ==
  /\ poseService.isRunning
  /\ frames < MaxPoseFrames
  /\ \E faster \in Faster, period \in FramePeriods :
       \E s \in {detectDominantHand(poseService, faster)} :
       \E frame \in {[Overhead(100, 100) EXCEPT !.timestamp = now + period]} :
         /\ poseService' = s
         /\ poseFrame' = [dominantHand |-> s.dominantHand]
         /\ wristActivity' =
              IF faster = "neither" THEN wristActivity
              ELSE [wristActivity EXCEPT ![faster] = @ + 1]
         /\ now' = frame.timestamp
         /\ IF sessionState.isActive
            THEN /\ Becomes(processFrame("registration", Detector, frame))
                 /\ lastFrame' = frame
            ELSE UNCHANGED <<detectorVars, lastFrame>>
  /\ frames' = frames + 1
  /\ lastCall' = "onPoseResults"
  /\ scenario' = ScenarioOff
  /\ UNCHANGED <<extra, calls, returned, kalmanFilter, lastUpdate, filterLog,
                 settings, sessionState, pc,
                 peakSincePull>>

NextPose ==
  \/ updateSettings
  \/ handleStart
  \/ handleStartResumed
  \/ handleStop
  \/ handleSwitchHand
  \/ onPoseResults

SpecPose == Init /\ [][NextPose]_vars

\* ------------------------------------------------------------- observations
IsRepEvent(e) == e.type = "rep"
IsSetEvent(e) == e.type = "set"
IsPhaseEvent(e) == e.type = "phase"
IsFatigueEvent(e) == e.type = "fatigue"
Data(e) == e.data

\* What the subscribers of each channel have been handed, in order.
RepEvents == Map(Filter(events, IsRepEvent), Data)
SetEvents == Map(Filter(events, IsSetEvent), Data)
PhaseEvents == Map(Filter(events, IsPhaseEvent), Data)
FatigueEvents == Map(Filter(events, IsFatigueEvent), Data)

PhaseOf(interval) == interval.phase

\* A step that processes a frame.
FrameStepTaken == frames' = frames + 1

\* ---------------------------------------------------------------------- C1
\* C1: once the six frames of scenario B (the conditions of Idle->Backswing,
\* Backswing->Hike, Hike->Pull, Pull->Punch, Punch->Lockout, Lockout->Drop,
\* in turn) have been processed on a newly started detector, exactly one
\* RepData has been emitted; its repNumber is 1 and its phases are the
\* intervals Backswing, Hike, Pull, Punch, Lockout in that order.
C1_ScenarioB_OneRep ==
  scenario.step = 6 =>
    /\ Len(RepEvents) = 1
    /\ RepEvents[1].repNumber = 1
    /\ Map(RepEvents[1].phases, PhaseOf) = <<BACKSWING, HIKE, PULL, PUNCH, LOCKOUT>>

\* Scenario B has been run to its sixth frame.
C1_ScenarioB_Run == scenario.step = 6 /\ frames = 6

\* ---------------------------------------------------------------------- C2
PermittedEdges ==
  {<<IDLE, BACKSWING>>, <<BACKSWING, HIKE>>, <<HIKE, PULL>>, <<HIKE, BACKSWING>>,
   <<PULL, PUNCH>>, <<PUNCH, LOCKOUT>>, <<LOCKOUT, DROP>>, <<DROP, RETURN>>,
   <<RETURN, BACKSWING>>, <<RETURN, IDLE>>}

\* The documented condition of an edge, on the frame f, with peak the peak
\* velocity of the phase so far (this frame included), hand the tracked hand
\* and duration the time spent in the phase.
EdgeCondition(old, new, f, peak, hand, duration) ==
  LET v == f.velocity
      h == heightRatioOf(f)
      a == IF hand = "left" THEN f.jointAngles.leftShoulderAbduction
           ELSE f.jointAngles.rightShoulderAbduction
      swing == v < backswingMin /\ h < backswingHeightRatio
  IN CASE old = IDLE /\ new = BACKSWING -> swing
       [] old = BACKSWING /\ new = HIKE -> v > 0 /\ h < backswingHeightRatio
       [] old = HIKE /\ new = PULL -> v > pullMin
       [] old = HIKE /\ new = BACKSWING -> v < backswingMin /\ ~(v > pullMin)
       [] old = PULL /\ new = PUNCH -> h * 10 > lockoutHeightRatio * 7 /\ v * 2 < peak
       [] old = PUNCH /\ new = LOCKOUT ->
            Abs(v) < lockoutMax /\ h > lockoutHeightRatio /\ a > overheadAngle
       [] old = LOCKOUT /\ new = DROP -> v < dropVelocity
       [] old = DROP /\ new = RETURN -> h * 10 < lockoutHeightRatio * 7
       [] old = RETURN /\ new = BACKSWING -> swing
       [] old = RETURN /\ new = IDLE ->
            Abs(v) < restVelocity /\ duration > restDuration /\ ~swing
       [] OTHER -> FALSE

\* C2: the phase machine starts in Idle, and a processed frame changes the
\* phase only along a permitted edge and only when the frame meets that
\* edge's condition; otherwise the phase holds.
C2_PermittedEdges ==
  /\ currentPhase = IDLE
  /\ [][FrameStepTaken /\ currentPhase' # currentPhase =>
          /\ <<currentPhase, currentPhase'>> \in PermittedEdges
          /\ EdgeCondition(currentPhase, currentPhase', lastFrame',
                 getPeakVelocityInPhase(
                   [velocityHistory |-> velocityHistory',
                    phaseStartTime |-> phaseStartTime]),
                 currentHand, lastFrame'.timestamp - phaseStartTime)]_vars

\* The machine has gone once round the cycle and back to Idle.
C2_CycleClosed ==
  /\ Len(PhaseEvents) = 8
  /\ PhaseEvents[7] = RETURN
  /\ PhaseEvents[8] = IDLE

\* ---------------------------------------------------------------------- C3
\* A frame step that takes the phase machine from old to new.
Transition(old, new) ==
  FrameStepTaken /\ currentPhase = old /\ currentPhase' = new

EntersBackswing ==
  FrameStepTaken /\ currentPhase # BACKSWING /\ currentPhase' = BACKSWING

\* C3: a repetition is opened exactly at a transition into Backswing made
\* while none is open, and its start time is that frame's timestamp; a
\* transition into Backswing made while one is open (the Hike->Backswing
\* abort) leaves it open with its start time unchanged; and a RepData is
\* emitted, one at a time, exactly at a Lockout->Drop transition made while
\* a repetition is open.
C3_RepLifecycle ==
  [][/\ (~repInProgress /\ repInProgress') <=> (EntersBackswing /\ ~repInProgress)
     /\ (~repInProgress /\ repInProgress') => currentRepStartTime' = lastFrame'.timestamp
     /\ (EntersBackswing /\ repInProgress) =>
           repInProgress' /\ currentRepStartTime' = currentRepStartTime
     /\ (RepEvents' # RepEvents) <=> (Transition(LOCKOUT, DROP) /\ repInProgress)
     /\ (RepEvents' # RepEvents) =>
           /\ Len(RepEvents') = Len(RepEvents) + 1
           /\ SubSeq(RepEvents', 1, Len(RepEvents)) = RepEvents
           /\ RepEvents'[Len(RepEvents')].startTime = currentRepStartTime
           /\ RepEvents'[Len(RepEvents')].endTime = lastFrame'.timestamp]_vars

\* A repetition opened at 100 ms, aborted from Hike back to Backswing, and
\* emitted at Lockout->Drop with the start time it was opened with.
C3_AbortedThenEmitted ==
  /\ PhaseEvents = <<BACKSWING, HIKE, BACKSWING, HIKE, PULL, PUNCH, LOCKOUT, DROP>>
  /\ Len(RepEvents) = 1
  /\ RepEvents[1].startTime = 100
  /\ RepEvents[1].endTime = 800

\* ---------------------------------------------------------------------- C4
\* C4: the repNumber values of the RepData records emitted so far are 1, 2,
\* 3, ... in emission order, whatever sets have been finalized or discarded
\* in between.
C4_RepNumbersConsecutive ==
  \A i \in 1..Len(RepEvents) : RepEvents[i].repNumber = i

\* Four repetitions numbered across two finalized sets.
C4_FourRepsTwoSets ==
  /\ Len(RepEvents) = 4
  /\ Len(sets) = 2
  /\ sets[2].reps[1].repNumber > 1

\* ---------------------------------------------------------------------- C5
minRepsForSet == config.setDetection.minRepsForSet

\* A step that calls the named method.
Calls(method) == calls' = calls + 1 /\ lastCall' = method

\* A frame step that finds, after its phase update, the set buffer
\* non-empty, the phase Idle and the last repetition more than maxRepGap old.
GapFrame ==
  /\ FrameStepTaken
  /\ isActive
  /\ currentSetReps # <<>>
  /\ currentPhase' = IDLE
  /\ lastFrame'.timestamp - lastRepEndTime > config.setDetection.maxRepGap

\* C5: no set of the set list holds fewer than minRepsForSet repetitions,
\* and a set boundary (stop, hand switch, idle gap) that finds the buffer
\* with fewer than minRepsForSet repetitions appends and emits no set and
\* leaves the buffer empty, so that none of them reaches a later set.
C5_ShortBufferDiscarded ==
  /\ [](\A i \in 1..Len(sets) : sets[i].totalReps >= minRepsForSet)
  /\ [][(Calls("stop") \/ Calls("switchHand") \/ GapFrame)
           /\ Len(currentSetReps) < minRepsForSet =>
          /\ sets' = sets
          /\ SetEvents' = SetEvents
          /\ currentSetReps' = <<>>]_vars

\* stop() has returned with one repetition in the buffer under a floor of
\* two.
C5_StoppedShort ==
  /\ lastCall = "stop"
  /\ minRepsForSet = 2
  /\ Len(currentSetReps) = 1

\* ---------------------------------------------------------------------- C6
\* C6: switchHand called with at least one repetition in the buffer appends
\* and emits one SetData holding exactly the buffered repetitions, whatever
\* minRepsForSet is, and empties the buffer.
C6_SwitchHandFinalizes ==
  [][Calls("switchHand") /\ currentSetReps # <<>> =>
       /\ Len(sets') = Len(sets) + 1
       /\ SubSeq(sets', 1, Len(sets)) = sets
       /\ sets'[Len(sets')].reps = currentSetReps
       /\ SetEvents' = Append(SetEvents, sets'[Len(sets')])
       /\ currentSetReps' = <<>>]_vars

\* switchHand has returned from a buffer of one repetition under a floor of
\* two.
C6_SwitchedShort ==
  /\ lastCall = "switchHand"
  /\ minRepsForSet = 2
  /\ Len(RepEvents) = 1
  /\ currentSetReps = <<>>

\* ---------------------------------------------------------------------- C7
PeakVelocityOf(r) == r.peakVelocity
PowerOf(r) == r.power

\* Scenario C: the first three repetitions of a newly started detector, all
\* in the set buffer, have peak velocities 1.0, 0.9 and 0.6 m/s, and the
\* critical velocity threshold is at most 33 %.
ScenarioC ==
  /\ config.fatigueThresholds.velocityDropCritical <= 33
  /\ sets = <<>>
  /\ Len(currentSetReps) >= 3
  /\ currentSetReps[1].repNumber = 1
  /\ Map(SubSeq(currentSetReps, 1, 3), PeakVelocityOf) = <<100, 90, 60>>

\* C7 as documented: in scenario C a critical velocity_drop alert has been
\* emitted for the third repetition.
C7_AlertOnThirdRep ==
  ScenarioC =>
    \E i \in 1..Len(FatigueEvents) :
      /\ FatigueEvents[i].repNumber = 3
      /\ FatigueEvents[i].type = "velocity_drop"
      /\ FatigueEvents[i].severity = "critical"

\* C7, amended: in scenario C no fatigue alert has been emitted for any of
\* the three repetitions; the third is checked against a baseline of two
\* samples and then completes the baseline with its own peak.
C7_NoAlertOnThirdRep ==
  ScenarioC =>
    /\ \A i \in 1..Len(FatigueEvents) : FatigueEvents[i].repNumber > 3
    /\ baselineVelocities = <<100, 90, 60>>

\* Scenario C just after its third repetition.
C7_ScenarioC_Run == ScenarioC /\ Len(currentSetReps) = 3 /\ Len(RepEvents) = 3

\* ---------------------------------------------------------------------- C8
\* C8: a fatigue alert is emitted only for a repetition that is at least the
\* fourth of its set, checked against a baseline whose three samples are
\* the peak velocities and powers of the first three repetitions of that
\* set.
C8_AlertOnlyAfterOwnBaseline ==
  [][FatigueEvents' # FatigueEvents =>
       /\ Len(currentSetReps') >= 4
       /\ baselineVelocities = Map(SubSeq(currentSetReps', 1, 3), PeakVelocityOf)
       /\ baselinePowers = Map(SubSeq(currentSetReps', 1, 3), PowerOf)]_vars

\* An alert has been emitted for the repetition that is the third of its
\* set buffer.
C8_AlertOnThirdOfSet ==
  /\ FatigueEvents # <<>>
  /\ Len(currentSetReps) = 3
  /\ FatigueEvents[Len(FatigueEvents)].repNumber = currentSetReps[3].repNumber

\* ---------------------------------------------------------------------- C9
\* (mean - value) / mean * 100 >= threshold for the mean of samples, a
\* positive mean, by cross-multiplication.
PercentDropAtLeast(samples, value, threshold) ==
  (SeqSum(samples) - Len(samples) * value) * 100 >= threshold * SeqSum(samples)

\* The alert of one kind the severity rule asks for: none, or one.
AlertsFor(type, samples, value, warning, critical) ==
  IF PercentDropAtLeast(samples, value, critical)
  THEN <<[type |-> type, severity |-> "critical"]>>
  ELSE IF PercentDropAtLeast(samples, value, warning)
  THEN <<[type |-> type, severity |-> "warning"]>>
  ELSE <<>>

TypeAndSeverity(a) == [type |-> a.type, severity |-> a.severity]

\* C9: a repetition finalized against a full baseline of positive mean
\* velocity and power raises exactly the alerts of the severity rule: for
\* velocity, critical from velocityDropCritical, else warning from
\* velocityDropWarning, else none; for power the same with the power
\* thresholds, whatever the velocity result; each carries the repetition's
\* number.
C9_SeverityRule ==
  [][(/\ RepEvents' # RepEvents
      /\ Len(baselineVelocities) = baselineSize
      /\ SeqSum(baselineVelocities) > 0
      /\ SeqSum(baselinePowers) > 0) =>
       LET rep == RepEvents'[Len(RepEvents')]
           ft == config.fatigueThresholds
           new == SubSeq(FatigueEvents', Len(FatigueEvents) + 1, Len(FatigueEvents'))
       IN /\ SubSeq(FatigueEvents', 1, Len(FatigueEvents)) = FatigueEvents
          /\ Map(new, TypeAndSeverity) =
               AlertsFor("velocity_drop", baselineVelocities, rep.peakVelocity,
                         ft.velocityDropWarning, ft.velocityDropCritical)
               \o AlertsFor("power_drop", baselinePowers, rep.power,
                            ft.powerDropWarning, ft.powerDropCritical)
          /\ \A i \in 1..Len(new) : new[i].repNumber = rep.repNumber]_vars

\* The fourth repetition of a set has raised a power warning and no
\* velocity alert.
C9_PowerWarningAlone ==
  /\ Len(currentSetReps) = 4
  /\ Len(FatigueEvents) = 1
  /\ FatigueEvents[1].repNumber = currentSetReps[4].repNumber
  /\ TypeAndSeverity(FatigueEvents[1]) = [type |-> "power_drop", severity |-> "warning"]

\* --------------------------------------------------------------------- C10
\* C10: a frame step closes the set buffer exactly when it is a gap frame
\* (buffer non-empty, phase Idle after the frame's phase update, the frame
\* more than maxRepGap after the last repetition's end); the buffer is then
\* finalized as one set, or discarded when it is below minRepsForSet; every
\* other frame step, in particular every one that leaves the phase other
\* than Idle, leaves the set list alone and the buffer as it was or one
\* repetition longer; and while frames keep being processed with the
\* machine in Idle, a non-empty buffer is eventually closed.
C10_GapRule ==
  /\ [][FrameStepTaken =>
          /\ (currentSetReps # <<>> /\ currentSetReps' = <<>>) <=> GapFrame
          /\ GapFrame /\ Len(currentSetReps) >= minRepsForSet =>
                /\ Len(sets') = Len(sets) + 1
                /\ sets'[Len(sets')].reps = currentSetReps
                /\ SetEvents' = Append(SetEvents, sets'[Len(sets')])
          /\ GapFrame /\ Len(currentSetReps) < minRepsForSet =>
                sets' = sets /\ SetEvents' = SetEvents
          /\ ~GapFrame =>
                /\ sets' = sets
                /\ SetEvents' = SetEvents
                /\ SubSeq(currentSetReps', 1, Len(currentSetReps)) = currentSetReps]_vars
  /\ (isActive /\ currentPhase = IDLE /\ currentSetReps # <<>>)
       ~> (currentSetReps = <<>> \/ currentPhase # IDLE)

\* With no rest taken, still frames alone have let the gap pass in Idle and
\* the buffer has been closed.
C10_ClosedByStillFrames ==
  /\ extra = 0
  /\ currentPhase = IDLE
  /\ Len(RepEvents) = 1
  /\ currentSetReps = <<>>
  /\ lastFrame.timestamp - lastRepEndTime > maxRepGap

\* --------------------------------------------------------------------- C11
RepCount(set) == Len(set.reps)

\* C11: stop() called with at least minRepsForSet repetitions in the buffer
\* appends and emits exactly one SetData, holding exactly the buffered
\* repetitions; that set is the last of the returned snapshot's sets, and
\* the snapshot's totalSets and totalReps are the number of its sets and
\* the number of repetitions in them.
C11_StopFinalizes ==
  [][Calls("stop") /\ Len(currentSetReps) >= minRepsForSet =>
       /\ Len(sets') = Len(sets) + 1
       /\ SubSeq(sets', 1, Len(sets)) = sets
       /\ sets'[Len(sets')].reps = currentSetReps
       /\ SetEvents' = Append(SetEvents, sets'[Len(sets')])
       /\ returned'.sets = sets'
       /\ returned'.sets[Len(returned'.sets)].reps = currentSetReps
       /\ returned'.totalSets = Len(returned'.sets)
       /\ returned'.totalReps = SeqSum(Map(returned'.sets, RepCount))]_vars

\* stop() has returned a snapshot whose one set holds the two repetitions
\* buffered under a floor of two.
C11_StoppedWithTwo ==
  /\ lastCall = "stop"
  /\ minRepsForSet = 2
  /\ currentSetReps = <<>>
  /\ returned.totalSets = 1
  /\ returned.totalReps = 2

\* --------------------------------------------------------------------- C12
\* C12: a frame sent while the detector is not active (paused) changes no
\* field of the detector (phase, open repetition, histories, filter, set
\* buffer, baseline, counters, alert log) and emits no event; pause() and
\* resume() change the active flag and nothing else, so that processing
\* resumes from the phase and the buffers held at pause().
C12_PauseFreezes ==
  [][/\ (FrameStepTaken /\ ~isActive => UNCHANGED detectorVars)
     /\ (Calls("pause") => Detector' = [Detector EXCEPT !.isActive = FALSE])
     /\ (Calls("resume") => Detector' = [Detector EXCEPT !.isActive = TRUE])]_vars

\* A repetition paused after it was opened, sent a frame while paused,
\* resumed and finalized: it lasts one frame period longer than its five
\* transitions.
C12_ResumedRepetition ==
  /\ isActive
  /\ returned = NoSessionData
  /\ calls = 3
  /\ extra = 1
  /\ Len(RepEvents) = 1
  /\ RepEvents[1].duration = 600
  /\ Map(RepEvents[1].phases, PhaseOf) = <<BACKSWING, HIKE, PULL, PUNCH, LOCKOUT>>

\* --------------------------------------------------------------------- C13
IsLockoutInterval(interval) == interval.phase = LOCKOUT

\* C13: a step that brings the machine to Idle while a repetition is open
\* closes the repetition without a RepData, leaves the repetition counter
\* as it was and empties the phase buffer; and a RepData is only ever
\* emitted from Lockout, for a repetition that was open, with a Lockout
\* interval among its phases.
C13_AbandonedRepDiscarded ==
  [][/\ (repInProgress /\ currentPhase # IDLE /\ currentPhase' = IDLE =>
           /\ ~repInProgress'
           /\ RepEvents' = RepEvents
           /\ repCounter' = repCounter
           /\ phaseHistory' = <<>>)
     /\ (RepEvents' # RepEvents =>
           /\ repInProgress
           /\ currentPhase = LOCKOUT
           /\ Filter(RepEvents'[Len(RepEvents')].phases, IsLockoutInterval) # <<>>)]_vars

\* Scenario D: a repetition opened and taken as far as Pull, then the
\* machine back in Idle with nothing emitted and nothing counted.
C13_AbandonedInPull ==
  /\ PhaseEvents = <<BACKSWING, HIKE, PULL>>
  /\ currentPhase = IDLE
  /\ ~repInProgress
  /\ RepEvents = <<>>
  /\ repCounter = 0
  /\ phaseHistory = <<>>

\* --------------------------------------------------------------------- C14
\* The phase-change events delivered so far, each with the phase
\* getCurrentPhase() returned during its delivery.
PhaseDeliveries == Filter(events, IsPhaseEvent)

PhaseDelivery(phase) == [type |-> "phase", data |-> phase, currentPhase |-> phase]

\* C14: a frame processed by an active detector that meets the condition
\* of an edge out of the current phase (the Hike->Backswing abort included)
\* takes that edge and delivers, within the same processFrame call, one
\* phase-change event carrying the new phase, with getCurrentPhase()
\* already returning it; every frame step that changes the phase delivers
\* exactly that one event; and no phase-change event is delivered by any
\* other step.
C14_EventPerTransition ==
  [][/\ (FrameStepTaken /\ isActive =>
           \A new \in SnatchPhase :
             EdgeCondition(currentPhase, new, lastFrame',
                 getPeakVelocityInPhase(
                   [velocityHistory |-> velocityHistory',
                    phaseStartTime |-> phaseStartTime]),
                 currentHand, lastFrame'.timestamp - phaseStartTime) =>
               /\ currentPhase' = new
               /\ PhaseDeliveries' = Append(PhaseDeliveries, PhaseDelivery(new)))
     /\ (FrameStepTaken /\ currentPhase' # currentPhase =>
           PhaseDeliveries' = Append(PhaseDeliveries, PhaseDelivery(currentPhase')))
     /\ (PhaseDeliveries' # PhaseDeliveries =>
           FrameStepTaken /\ currentPhase' # currentPhase)]_vars

\* An active detector in Idle has processed, as its first frame, a frame
\* that meets the condition of Idle->Backswing.
C14_SwingFrameProcessed ==
  /\ isActive
  /\ frames = 1
  /\ scenario.step = 1
  /\ lastFrame.velocity < backswingMin
  /\ heightRatioOf(lastFrame) < backswingHeightRatio

\* --------------------------------------------------------------------- C15
\* The quotient q is the number k.
IsNumber(q, k) == q.den # 0 /\ q.num = k * q.den

SamePeakVelocity(reps) ==
  \A i \in 1..Len(reps) : reps[i].peakVelocity = reps[1].peakVelocity

\* C15: the velocityDropoff of every finalized set is the number
\* (first - last) / first x 100 of the peak velocities of its first and last
\* repetitions: 0 when all its repetitions have the same peak velocity (a
\* set of one repetition included), 40 for the peak velocities 1.0, 0.9, 0.6.
C15_VelocityDropoff ==
  \A i \in 1..Len(sets) :
    LET reps == sets[i].reps
        first == reps[1].peakVelocity
        last == reps[Len(reps)].peakVelocity
        dropoff == sets[i].velocityDropoff
    IN /\ dropoff.den # 0
       /\ dropoff.num * first = (first - last) * 100 * dropoff.den
       /\ SamePeakVelocity(reps) => IsNumber(dropoff, 0)
       /\ Map(reps, PeakVelocityOf) = <<100, 90, 60>> => IsNumber(dropoff, 40)

\* A set of one repetition has been finalized whose lockout was held until
\* the history held nothing older: its peak velocity is 0.
C15_SetOfZeroPeak ==
  /\ Len(sets) = 1
  /\ Len(sets[1].reps) = 1
  /\ sets[1].reps[1].peakVelocity = 0

\* --------------------------------------------------------------------- C16
\* C16: the fatigueFactor of every SetData emitted is a number between 0
\* and 1, whatever non-negative peak velocities and powers its repetitions
\* have, zero included.
C16_FatigueFactorInRange ==
  \A i \in 1..Len(SetEvents) :
    LET factor == SetEvents[i].fatigueFactor
    IN /\ ~IsNaN(factor)
       /\ ~IsInfinite(factor)
       /\ ~Below(factor, 0)
       /\ ~Above(factor, 1)

\* A SetData has been emitted whose first repetition has peak velocity 0
\* and whose powers are not negative.
C16_EmittedWithZeroPeak ==
  /\ SetEvents # <<>>
  /\ SetEvents[1].reps[1].peakVelocity = 0
  /\ \A j \in 1..Len(SetEvents[1].reps) :
        /\ SetEvents[1].reps[j].peakVelocity >= 0
        /\ SetEvents[1].reps[j].power >= 0

\* --------------------------------------------------------------------- C17
IsFiniteNumber(q) == q.den # 0

\* C17: a zero baseline gives a drop of 0 and no NaN or infinity: a set
\* whose first repetition has peak velocity 0 has velocityDropoff 0, and a
\* set's velocityDropoff and fatigueFactor are always finite numbers; a
\* repetition checked against a baseline of mean peak velocity 0 (of mean
\* power 0) raises no velocity (no power) alert; and the velocity drop
\* stored in an alert is a finite number.
C17_ZeroBaselineIsNoDrop ==
  /\ [](\A i \in 1..Len(sets) :
          /\ IsFiniteNumber(sets[i].velocityDropoff)
          /\ IsFiniteNumber(sets[i].fatigueFactor)
          /\ sets[i].reps[1].peakVelocity = 0 => IsNumber(sets[i].velocityDropoff, 0))
  /\ [](\A i \in 1..Len(fatigueAlerts) :
          fatigueAlerts[i].type = "velocity_drop" =>
            IsFiniteNumber(fatigueAlerts[i].velocityDropPercent))
  /\ [][RepEvents' # RepEvents /\ Len(baselineVelocities) = baselineSize =>
          LET new == SubSeq(FatigueEvents', Len(FatigueEvents) + 1, Len(FatigueEvents'))
          IN \A i \in 1..Len(new) :
               /\ new[i].type = "velocity_drop" => SeqSum(baselineVelocities) # 0
               /\ new[i].type = "power_drop" => SeqSum(baselinePowers) # 0]_vars

\* finalizeSet has run, at a hand switch, on a buffer whose first
\* repetition has peak velocity 0.
C17_FinalizedFromZero ==
  /\ lastCall = "switchHand"
  /\ sets # <<>>
  /\ sets[Len(sets)].reps[1].peakVelocity = 0
  /\ currentSetReps = <<>>

\* --------------------------------------------------------------------- C18
\* A buffer after one more sample: the oldest sample goes if it was full.
Pushed(buffer, sample) ==
  (IF Len(buffer) = maxHistoryLength THEN Tail(buffer) ELSE buffer) \o <<sample>>

\* C18: the velocity, height and angle histories always have the same
\* length, at most maxHistoryLength, and a frame processed by an active
\* detector appends its sample to each of them, evicting the oldest sample
\* of each when they are full.
C18_HistoryBounded ==
  /\ [](/\ Len(velocityHistory) = Len(heightHistory)
        /\ Len(heightHistory) = Len(angleHistory)
        /\ Len(velocityHistory) <= maxHistoryLength)
  /\ [][FrameStepTaken /\ isActive =>
          LET t == lastFrame'.timestamp
          IN /\ velocityHistory' =
                  Pushed(velocityHistory, [time |-> t, velocity |-> lastFrame'.velocity])
             /\ heightHistory' =
                  Pushed(heightHistory, [time |-> t, height |-> 100 - lastFrame'.y])
             /\ angleHistory' =
                  Pushed(angleHistory, [time |-> t, angles |-> lastFrame'.jointAngles])]_vars

\* More frames than the buffers hold have been processed since start():
\* the buffers are full and their first samples are gone.
C18_OldestEvicted ==
  /\ frames > maxHistoryLength
  /\ Len(velocityHistory) = maxHistoryLength
  /\ velocityHistory[1].time > 100
  /\ heightHistory[1].time > 100
  /\ angleHistory[1].time > 100

\* --------------------------------------------------------------------- C19
\* A repetition, and a set, of the session begun by the last start(): the
\* frames of a session come after its start().
InThisSession(r) == r.startTime >= sessionStartTime

SetInThisSession(set) == InThisSession(set.reps[1])

\* C19: every start() begins a fresh session: a RepData is numbered from 1
\* among the repetitions of its session and a SetData from 1 among the sets
\* of its session, and the snapshot stop() returns holds only repetitions
\* and fatigue alerts of the session it ends.
C19_FreshSession ==
  [][/\ (RepEvents' # RepEvents =>
           RepEvents'[Len(RepEvents')].repNumber =
             Len(Filter(RepEvents, InThisSession)) + 1)
     /\ (SetEvents' # SetEvents =>
           SetEvents'[Len(SetEvents')].setNumber =
             Len(Filter(SetEvents, SetInThisSession)) + 1)
     /\ (Calls("stop") =>
           /\ \A i \in 1..Len(returned'.sets) :
                \A j \in 1..Len(returned'.sets[i].reps) :
                  InThisSession(returned'.sets[i].reps[j])
           /\ \A i \in 1..Len(returned'.fatigueAlerts) :
                returned'.fatigueAlerts[i].timestamp >= sessionStartTime)]_vars

\* A second session on the same detector has finalized its first
\* repetition: one repetition before the last start(), one after.
C19_SecondSessionRep ==
  /\ isActive
  /\ returned # NoSessionData
  /\ Len(RepEvents) = 2
  /\ ~InThisSession(RepEvents[1])
  /\ InThisSession(RepEvents[2])

\* --------------------------------------------------------------------- C20
\* A step that calls the filter's update.
UpdateStep == lastCall' = "KalmanFilter1D.update" /\ frames' = frames + 1

\* The documented time step, in fixed point, of an update at timestamp t
\* that follows an update at timestamp last.
ClampedDt(last, t) ==
  LET seconds == ((t - last) * Second) \div 1000
  IN IF seconds < Second \div 1000 THEN Second \div 1000
     ELSE IF seconds > Second \div 2 THEN Second \div 2
     ELSE seconds

\* C20: an update that is the first since construction or since reset()
\* works with a dt of 1/30 s; every other update works with the time since
\* the update before it, in seconds, clamped to [0.001, 0.5], equal and
\* decreasing timestamps included; and every update leaves lastTimestamp at
\* its own timestamp.
C20_EffectiveDt ==
  [][UpdateStep =>
       LET m == lastUpdate'.measurement
           t == lastUpdate'.timestamp
           dt == IF lastCall = "KalmanFilter1D.update"
                 THEN ClampedDt(lastUpdate.timestamp, t)
                 ELSE Second \div 30
       IN /\ kalmanFilter' = updateWith(kalmanFilter, m, t, dt)
          /\ lastUpdate'.returns = kalmanFilter'.state
          /\ kalmanFilter'.lastTimestamp = t]_vars

\* An update at 33 ms has followed an update at 66 ms.
C20_TimestampWentBack ==
  /\ lastCall = "KalmanFilter1D.update"
  /\ lastUpdate.previous = 66
  /\ lastUpdate.timestamp = 33
  /\ kalmanFilter.lastTimestamp = 33

\* --------------------------------------------------------------------- C21
RECURSIVE Replay(_, _)
\* The filter f after the updates of a log, in order.
Replay(f, updates) ==
  IF updates = <<>> THEN f
  ELSE Replay(update(f, Head(updates).measurement, Head(updates).timestamp),
              Tail(updates))

\* A filter as the constructor leaves it, but at position p.
NewFilterAt(p) ==
  [config |-> FilterConfig,
   state |-> [position |-> p, velocity |-> 0, covariance |-> 0,
              positionVariance |-> FilterConfig.initialPositionVariance,
              velocityVariance |-> FilterConfig.initialVelocityVariance],
   lastTimestamp |-> NoTimestamp]

\* C21: reset(p) leaves position p, velocity 0, covariance 0, the configured
\* initial variances and no last timestamp, whatever updates came before;
\* the updates that follow leave, and return, exactly what they leave and
\* return on a newly constructed filter of the same configuration placed at
\* p, the first of them working with the default dt of 1/30 s.
C21_ResetIsNewFilter ==
  filterLog.reset =>
    /\ kalmanFilter = Replay(NewFilterAt(filterLog.position), filterLog.updates)
    /\ filterLog.updates = <<>> => kalmanFilter = NewFilterAt(filterLog.position)
    /\ filterLog.updates # <<>> =>
         /\ lastUpdate.returns = kalmanFilter.state
         /\ Replay(NewFilterAt(filterLog.position), <<filterLog.updates[1]>>) =
              updateWith(NewFilterAt(filterLog.position),
                         filterLog.updates[1].measurement,
                         filterLog.updates[1].timestamp, Second \div 30)

\* A filter updated at 0 ms was reset to position 1.0 and has since been
\* updated at 33 ms and at 66 ms.
C21_UpdatedAfterReset ==
  /\ filterLog.reset
  /\ filterLog.position = Second
  /\ filterLog.previous = 0
  /\ Len(filterLog.updates) = 2
  /\ filterLog.updates[1].timestamp = 33
  /\ filterLog.updates[2].timestamp = 66

\* --------------------------------------------------------------------- C22
\* How close counts as arrived (0.01), and the number of updates after
\* which the estimate has to have arrived and to stay.
Tolerance == Second \div 100

SettleAfter == 6 * 10

\* C22: a filter fed the same measurement m at a constant period (33 ms or
\* 100 ms, from timestamp 0) has, from its sixtieth update on, its estimated
\* position within 0.01 of m and its estimated velocity within 0.01 of 0.
C22_SteadyState ==
  frames >= SettleAfter =>
    /\ Abs(kalmanFilter.state.position - lastUpdate.measurement) <= Tolerance
    /\ Abs(kalmanFilter.state.velocity) <= Tolerance

\* The measurement 1.0 has been fed seventy times, 33 ms apart.
C22_FedSeventyTimes ==
  /\ frames = MaxSteadyUpdates
  /\ lastUpdate.measurement = Second
  /\ lastUpdate.timestamp - lastUpdate.previous = 33
  /\ \A i \in 1..Len(filterLog.updates) :
       /\ filterLog.updates[i].measurement = Second
       /\ filterLog.updates[i].timestamp = 33 * (i - 1)

\* --------------------------------------------------------------------- C23
\* The wrist that has been the faster one in over ten frames more than the
\* other since the counts were cleared, if there is one.
Leading ==
  IF wristActivity.left > wristActivity.right + 10 THEN "left"
  ELSE IF wristActivity.right > wristActivity.left + 10 THEN "right"
  ELSE "neither"

\* C23: with the Dominant Hand setting at 'auto' and a session running, a
\* frame delivered when one wrist's activity count leads the other's by
\* more than 10 reports that wrist's side as the dominant hand.
C23_AutoDetectsInSession ==
  (/\ settings.dominantHand = "auto"
   /\ sessionState.isActive
   /\ lastCall = "onPoseResults"
   /\ Leading # "neither")
  => poseFrame.dominantHand = Leading

\* Under 'auto', in a session started on the right hand, the left wrist has
\* been the faster one in eleven frames and the right wrist in none.
C23_LeftWristLeads ==
  /\ settings.dominantHand = "auto"
  /\ sessionState.isActive
  /\ sessionState.dominantHand = "right"
  /\ lastCall = "onPoseResults"
  /\ wristActivity = [left |-> 11, right |-> 0]

\* --------------------------------------------------------------------- C24
\* The next phase by the documented table, for the phase p, the frame f, the
\* peak velocity of the phase so far, the tracked hand and the time spent in
\* the phase.
TableNext(p, f, peak, hand, duration) ==
  LET Met(new) == EdgeCondition(p, new, f, peak, hand, duration)
  IN CASE p = IDLE -> IF Met(BACKSWING) THEN BACKSWING ELSE p
       [] p = BACKSWING -> IF Met(HIKE) THEN HIKE ELSE p
       [] p = HIKE -> IF Met(PULL) THEN PULL
                      ELSE IF Met(BACKSWING) THEN BACKSWING ELSE p
       [] p = PULL -> IF Met(PUNCH) THEN PUNCH ELSE p
       [] p = PUNCH -> IF Met(LOCKOUT) THEN LOCKOUT ELSE p
       [] p = LOCKOUT -> IF Met(DROP) THEN DROP ELSE p
       [] p = DROP -> IF Met(RETURN) THEN RETURN ELSE p
       [] p = RETURN -> IF Met(BACKSWING) THEN BACKSWING
                        ELSE IF Met(IDLE) THEN IDLE ELSE p

\* C24: a frame processed by an active detector leaves the machine in the
\* phase the documented table gives for the phase it was in and the frame's
\* velocity, height ratio and shoulder abduction; that phase is what
\* getCurrentPhase() returns after the frame.
C24_NextPhaseByTable ==
  [][FrameStepTaken /\ isActive =>
       currentPhase' =
         TableNext(currentPhase, lastFrame',
                   getPeakVelocityInPhase(
                     [velocityHistory |-> velocityHistory',
                      phaseStartTime |-> phaseStartTime]),
                   currentHand, lastFrame'.timestamp - phaseStartTime)]_vars

\* An active detector has processed two frames that each meet the condition
\* of Idle->Backswing, and is in Idle with two phase callbacks registered.
C24_SwungTwiceInIdle ==
  /\ isActive
  /\ lastCall = "processFrame"
  /\ frames = 2
  /\ currentPhase = IDLE
  /\ Len(phaseCallbacks) = 2
  /\ lastFrame.velocity < backswingMin
  /\ heightRatioOf(lastFrame) < backswingHeightRatio

\* --------------------------------------------------------------------- C25
\* The velocity processFrame last stored in the velocity history (and
\* compared against the phase thresholds), in 0.01 m/s.
UsedVelocity == velocityHistory[Len(velocityHistory)].velocity

\* C25: with the measured vertical velocity of the wrist held at v, from the
\* sixtieth frame on the velocity that processFrame uses is within 0.01 m/s
\* of v.
C25_UsesFilteredVelocity ==
  (/\ isActive
   /\ lastCall = "processFrame"
   /\ frames >= SettleAfter)
  => Abs(UsedVelocity * Centi - lastUpdate.measurement) <= Centi

\* The wrist has moved down at 0.20 m/s for seventy frames: the filter's
\* position estimate is within 0.01 of -0.20.
C25_HeldSeventyFrames ==
  /\ isActive
  /\ lastCall = "processFrame"
  /\ frames = MaxSteadyUpdates
  /\ lastUpdate.measurement = -20 * Centi
  /\ Abs(kalmanFilter.state.position - lastUpdate.measurement) <= Centi

\* --------------------------------------------------------------------- C26
\* The samples of the velocity history taken in the present phase (after the
\* frame that entered it) and no more than 500 ms before time t.
RecentInPhase(history, entered, t) ==
  {i \in 1..Len(history) :
     history[i].time > entered /\ history[i].time >= t - restDuration}

\* C26: a frame takes the machine from Return to Idle only if |velocity| <
\* 0.05 held on every frame processed in Return during the 500 ms up to it,
\* and only after more than 500 ms in Return.
C26_RestSustained ==
  [][FrameStepTaken /\ currentPhase = RETURN /\ currentPhase' = IDLE =>
       /\ lastFrame'.timestamp - phaseStartTime > restDuration
       /\ \A i \in RecentInPhase(velocityHistory', phaseStartTime,
                                  lastFrame'.timestamp) :
            Abs(velocityHistory'[i].velocity) < restVelocity]_vars

\* The machine has left Return for Idle on a still frame, 600 ms after it
\* entered Return, and the frame before that one was not still.
C26_IdleAfterMovingFrame ==
  /\ currentPhase = IDLE
  /\ lastCall = "processFrame"
  /\ Len(PhaseEvents) = 8
  /\ Len(phaseHistory) > 0
  /\ phaseHistory[Len(phaseHistory)].phase = RETURN
  /\ phaseHistory[Len(phaseHistory)].endTime
       - phaseHistory[Len(phaseHistory)].startTime = 600
  /\ Len(velocityHistory) >= 2
  /\ Abs(velocityHistory[Len(velocityHistory)].velocity) < restVelocity
  /\ Abs(velocityHistory[Len(velocityHistory) - 1].velocity) >= restVelocity

\* --------------------------------------------------------------------- C27
\* C27: a frame processed in Pull moves the machine to Punch exactly when
\* its height ratio is above 0.7 x lockoutHeightRatio and its velocity is
\* below half of the greatest velocity among all the frames processed since
\* Pull was entered (the entry frame and this frame included); otherwise
\* the machine stays in Pull.
C27_PeakSinceEntry ==
  [][FrameStepTaken /\ isActive /\ currentPhase = PULL =>
       LET v == lastFrame'.velocity
           reference == IF peakSincePull > v THEN peakSincePull ELSE v
           punch == /\ heightRatioOf(lastFrame') * 10 > lockoutHeightRatio * 7
                    /\ v * 2 < reference
       IN currentPhase' = IF punch THEN PUNCH ELSE PULL]_vars

\* The machine is in Pull, and the greatest velocity since it entered Pull
\* (1.00 m/s) is no longer in the velocity history.
C27_PeakEvicted ==
  /\ isActive
  /\ currentPhase = PULL
  /\ peakSincePull = 100
  /\ getPeakVelocityInPhase(Detector) < peakSincePull

\* --------------------------------------------------------------------- C28
\* The first three elements of a list, or all of it if it is shorter.
FirstThree(list) == SubSeq(list, 1, IF Len(list) < baselineSize THEN Len(list)
                                    ELSE baselineSize)

\* C28: between the calls, the baseline holds the peak velocities and the
\* powers of the first min(3, n) of the n repetitions in the set buffer; it
\* is empty whenever the buffer is (after a set is finalized or discarded,
\* after the hand is switched).
C28_BaselineOfCurrentSet ==
  /\ baselineVelocities = Map(FirstThree(currentSetReps), PeakVelocityOf)
  /\ baselinePowers = Map(FirstThree(currentSetReps), PowerOf)

\* A hand switch has discarded a buffer of one repetition (floor of two).
C28_SwitchDiscardedOne ==
  /\ lastCall = "switchHand"
  /\ config.setDetection.minRepsForSet = 2
  /\ Len(RepEvents) = 1
  /\ currentSetReps = <<>>
  /\ sets = <<>>

\* --------------------------------------------------------------------- C29
\* The samples of a history buffer with startTime <= time < endTime.
Window(history, startTime, endTime) ==
  LET Within(x) == x.time >= startTime /\ x.time < endTime
  IN Filter(history, Within)

VelocityOf(x) == x.velocity

HeightOf(x) == x.height

\* C29: the peak velocity, the mean velocity and the peak height of a
\* finalized repetition are those of the buffered samples from the
\* repetition's start time up to, and not including, its end time (the
\* timestamp of the frame that takes the machine from Lockout to Drop).
C29_HalfOpenWindow ==
  [][Len(RepEvents') = Len(RepEvents) + 1 =>
       LET rep == RepEvents'[Len(RepEvents')]
           velocities == Map(Window(velocityHistory', rep.startTime, rep.endTime),
                             VelocityOf)
           heights == Map(Window(heightHistory', rep.startTime, rep.endTime),
                          HeightOf)
       IN /\ rep.endTime = lastFrame'.timestamp
          /\ rep.peakVelocity = SeqMax(velocities)
          /\ rep.meanVelocity.num * Len(velocities)
               = SeqSum(velocities) * rep.meanVelocity.den
          /\ rep.peakHeight = SeqMax(heights)]_vars

\* The frame that took the machine from Lockout to Drop has finalized the
\* first repetition; its sample, at the repetition's end time, is the last
\* of the six in the velocity history.
C29_TriggeringFrameBuffered ==
  /\ lastCall = "processFrame"
  /\ currentPhase = DROP
  /\ Len(RepEvents) = 1
  /\ Len(velocityHistory) = 6
  /\ velocityHistory[6].time = RepEvents[1].endTime
  /\ velocityHistory[1].time = RepEvents[1].startTime
  /\ velocityHistory[6].velocity < dropVelocity

\* --------------------------------------------------------------------- C30
\* The intervals of a list follow one another in time without gap or
\* overlap, from startTime to endTime.
Contiguous(phases, startTime, endTime) ==
  /\ phases # <<>>
  /\ phases[1].startTime = startTime
  /\ phases[Len(phases)].endTime = endTime
  /\ \A i \in 1..Len(phases) : phases[i].startTime <= phases[i].endTime
  /\ \A i \in 1..(Len(phases) - 1) : phases[i].endTime = phases[i + 1].startTime

FinalizedByStep == SubSeq(RepEvents', Len(RepEvents) + 1, Len(RepEvents'))

\* A step that is a set boundary: stop(), a hand switch or a gap frame.
SetBoundary == Calls("stop") \/ Calls("switchHand") \/ GapFrame

Occurrences(list, x) == Cardinality({i \in 1..Len(list) : list[i] = x})

\* C31: the finalized sets partition the repetitions by set boundaries.  No
\* RepData is in more than one SetData; the set buffer holds, in order of
\* finalization, exactly the repetitions finalized since the last set
\* boundary (a boundary leaves it empty, any other step leaves it as it was
\* followed by the repetitions the step finalized); the set list is only
\* ever appended to, only at a set boundary, by one SetData whose reps are
\* the buffer the boundary found, with totalReps = reps.length >= 1; and the
\* i-th set of the list has setNumber i.
C31_SetsPartitionReps ==
  /\ [](/\ \A i \in 1..Len(RepEvents) :
             Occurrences(FlatMapReps(sets), RepEvents[i]) <= 1
        /\ \A i \in 1..Len(sets) :
             /\ sets[i].setNumber = i
             /\ sets[i].totalReps = Len(sets[i].reps)
             /\ sets[i].totalReps >= 1)
  /\ [][/\ (SetBoundary =>
              /\ FinalizedByStep = <<>>
              /\ currentSetReps' = <<>>
              /\ \/ sets' = sets
                 \/ /\ Len(sets') = Len(sets) + 1
                    /\ SubSeq(sets', 1, Len(sets)) = sets
                    /\ sets'[Len(sets')].reps = currentSetReps)
        /\ (~SetBoundary =>
              /\ sets' = sets
              /\ currentSetReps' = currentSetReps \o FinalizedByStep)]_vars

\* A second session has finalized a repetition after a stop() that found one
\* repetition under a floor of two: the buffer holds a repetition of each
\* session, and the next boundary makes one set of them.
C31_BufferAcrossStop ==
  /\ minRepsForSet = 2
  /\ returned # NoSessionData
  /\ lastCall = "processFrame"
  /\ Len(currentSetReps) = 2
  /\ currentSetReps[1].endTime <= returned.endTime
  /\ currentSetReps[2].startTime >= sessionStartTime
  /\ sessionStartTime >= returned.endTime

\* --------------------------------------------------------------------- C32
\* The phases in which a repetition is open.
RepPhases == {BACKSWING, HIKE, PULL, PUNCH, LOCKOUT}

\* C32: in every reachable state a repetition is open (isRepInProgress())
\* exactly when the phase is one of Backswing, Hike, Pull, Punch, Lockout;
\* so no frame takes the machine into Idle with a repetition open, which is
\* the one case in which the handler's abandon branch would be taken.
C32_RepOpenIffInCycle ==
  /\ [](repInProgress <=> currentPhase \in RepPhases)
  /\ [][FrameStepTaken /\ currentPhase # IDLE /\ currentPhase' = IDLE =>
          ~repInProgress]_vars

\* A frame has taken the machine from Return into Idle, after a repetition
\* that was opened, aborted to Backswing or not, and finalized.
C32_FrameEnteredIdle ==
  /\ lastCall = "processFrame"
  /\ currentPhase = IDLE
  /\ phaseStartTime = lastFrame.timestamp
  /\ ~repInProgress
  /\ Len(RepEvents) = 1
  /\ PhaseEvents[Len(PhaseEvents)] = IDLE

\* --------------------------------------------------------------------- C33
\* C33: processFrame never changes the subscriber lists: after a frame step
\* the phase-change list holds exactly what it held before the frame, so its
\* size does not grow with the number of frames processed.  (The loops
\* processFrame reaches read the other lists; they change them only when a
\* callback calls an unsubscribe closure.)
C33_SubscribersUntouched ==
  [][FrameStepTaken => phaseCallbacks' = phaseCallbacks]_vars

\* Scenario B has been run to its sixth frame on a detector nobody has
\* subscribed to: the phase-change list holds two entries, the phase names
\* pushed by the first and the sixth frame.
C33_ListGrewInScenarioB ==
  /\ scenario.step = 6
  /\ frames = 6
  /\ lastCall = "processFrame"
  /\ phaseCallbacks = <<IDLE, IDLE>>

\* --------------------------------------------------------------------- C34
\* C34: every FatigueAlert recorded or delivered carries the setNumber of
\* the SetData that contains the repetition of the alert's repNumber, once
\* that repetition is in a finalized set.
C34_AlertNamesItsSet ==
  \A i \in 1..Len(sets) : \A j \in 1..Len(sets[i].reps) :
    /\ \A k \in 1..Len(fatigueAlerts) :
         fatigueAlerts[k].repNumber = sets[i].reps[j].repNumber =>
           fatigueAlerts[k].setNumber = sets[i].setNumber
    /\ \A k \in 1..Len(FatigueEvents) :
         FatigueEvents[k].repNumber = sets[i].reps[j].repNumber =>
           FatigueEvents[k].setNumber = sets[i].setNumber

\* An alert was raised for the last repetition of a set that a hand switch
\* has since finalized, after an earlier buffer was discarded.
C34_AlertedRepFinalized ==
  /\ lastCall = "switchHand"
  /\ Len(sets) = 1
  /\ sets[1].reps[1].repNumber = 2
  /\ fatigueAlerts # <<>>
  /\ fatigueAlerts[1].repNumber = sets[1].reps[Len(sets[1].reps)].repNumber

\* --------------------------------------------------------------------- C35
\* C35: every repetition of a finalized SetData, in the set list and as
\* delivered, has the hand of its set, whatever frames, start(hand),
\* pause, resume and stop calls came before.
C35_SetHandIsRepsHand ==
  /\ \A i \in 1..Len(sets) : \A j \in 1..Len(sets[i].reps) :
       sets[i].reps[j].hand = sets[i].hand
  /\ \A i \in 1..Len(SetEvents) : \A j \in 1..Len(SetEvents[i].reps) :
       SetEvents[i].reps[j].hand = SetEvents[i].hand

\* stop() has finalized a set after a start() for the other hand found a
\* repetition in the buffer.
C35_StartedOtherHand ==
  /\ lastCall = "stop"
  /\ Len(sets) = 1
  /\ sets[1].reps[1].startTime < sessionStartTime
  /\ sets[1].reps[1].hand = OtherHand(currentHand)

\* --------------------------------------------------------------------- C37
\* What a step has delivered, in order of delivery.
DeliveredByStep == SubSeq(events', Len(events) + 1, Len(events'))

\* C37: the frame that finalizes a repetition at Lockout->Drop delivers, in
\* this order, the phase-change event for Drop, the fatigue alerts raised
\* for that repetition (the ones the step appends to the alert log), and
\* last the repetition-finalized event; it delivers no set-finalized event.
C37_DeliveryOrder ==
  [][Transition(LOCKOUT, DROP) /\ repInProgress =>
       \E n \in {Len(DeliveredByStep)} :
         /\ n >= 2
         /\ DeliveredByStep[1] = PhaseDelivery(DROP)
         /\ IsRepEvent(DeliveredByStep[n])
         /\ DeliveredByStep[n].data.endTime = lastFrame'.timestamp
         /\ \A k \in 2..(n - 1) :
              /\ IsFatigueEvent(DeliveredByStep[k])
              /\ DeliveredByStep[k].data.repNumber = DeliveredByStep[n].data.repNumber
         /\ fatigueAlerts' =
              fatigueAlerts \o [k \in 1..(n - 2) |-> DeliveredByStep[k + 1].data]]_vars

\* The frame last processed took the machine from Lockout to Drop and
\* delivered the phase change, two alerts and the repetition.
C37_DroppedWithTwoAlerts ==
  /\ lastCall = "processFrame"
  /\ currentPhase = DROP
  /\ phaseStartTime = lastFrame.timestamp
  /\ Len(events) >= 4
  /\ IsRepEvent(events[Len(events)])
  /\ IsFatigueEvent(events[Len(events) - 1])
  /\ IsFatigueEvent(events[Len(events) - 2])
  /\ events[Len(events) - 3] = PhaseDelivery(DROP)

\* --------------------------------------------------------------------- C36
\* The elements of a list.
Range(list) == {list[i] : i \in 1..Len(list)}

\* C36: for every RepData emitted, every callback registered on the
\* repetition channel at the moment of the emission has been invoked exactly
\* once for it, whatever unsubscribe closures the callbacks called during
\* the delivery; and no callback that was not registered at that moment
\* (never subscribed, or unsubscribed before it) has been invoked for it.
C36_DeliveredOnceToEach ==
  \A k \in 1..Len(repDeliveries) :
    /\ \A name \in Range(repDeliveries[k].registered) :
         Occurrences(repDeliveries[k].invoked, name) = 1
    /\ Range(repDeliveries[k].invoked) \subseteq Range(repDeliveries[k].registered)

\* A repetition has been delivered to two registered callbacks, the first
\* of which calls its own unsubscribe closure when it is invoked.
C36_FirstUnsubscribedItself ==
  /\ Len(repDeliveries) = 1
  /\ repDeliveries[1].registered = <<"a", "b">>
  /\ repDeliveries[1].invoked = <<"a">>
  /\ repCallbacks = <<RepCallback("b", "none")>>
  /\ lastCall = "processFrame"

====
